---------------------------- MODULE Spec2Model ----------------------------
(***************************************************************************)
(* A model of the xrust data model: qualified names (src/src/qname.rs),    *)
(* the two-phase tree (src/src/rctree.rs), the node and document traits    *)
(* (src/src/item.rs) and the XML content parser (src/src/parsexml.rs).     *)
(*                                                                         *)
(* Conventions.  A Rust String is a sequence of one-character strings, so  *)
(* "foo" is <<"f","o","o">>.  An Option<T> is a sequence of length at most *)
(* one: None is <<>> and Some(x) is <<x>>.                                 *)
(***************************************************************************)
EXTENDS Integers, Sequences, FiniteSets, TLC

VARIABLES
    qh,        \* SpecQName: the QHash under test, a set of [key, val] entries
    qlast,     \* SpecQName: the last operation on qh and what it returned
    aheap,     \* SpecATree: the Rc allocations holding ANodes and ADocs
    ahandles,  \* SpecATree: how many Rc handles the caller holds on each allocation
    afailed,   \* SpecATree: the allocations on which a push has failed so far
    ares,      \* SpecATree: what the last call returned
    adoc,      \* SpecBTree: the ADoc handed to the conversion
    bnodes,    \* SpecBTree: the Rc allocations holding BNodes
    bdocs,     \* SpecBTree: the Rc allocations holding BDocs
    bres,      \* SpecBTree: the last call, what it returned, the iterator it left
    sseq,      \* SpecSeq: the Sequence under test, a vector of items
    sres,      \* SpecSeq: the last call on the sequence or its items, and its result
    nmaps,     \* SpecResolve: the list of namespace maps names are resolved against
    nres,      \* SpecResolve: the last name resolved and what came back
    namespace, \* parser: ParserState.namespace, the stack of in-scope bindings
    pinput,    \* parser: the input the parser under test is given
    pentry,    \* parser: the stacks the element productions under way saved on entry
    pres,      \* parser: the last parser call and what it returned
    tsrc,      \* transformation: the children of the source's document element
    tstyle,    \* transformation: what the stylesheet and the message sink are
    tpc,       \* transformation: the node and the instruction evaluation is at
    tout,      \* transformation: the result sequence built so far
    tmsgs,     \* transformation: the messages the caller's sink has received
    tkeys,     \* transformation: the key index of the dynamic context
    tres       \* transformation: the last call on the context and what it returned

qvars == <<qh, qlast>>
avars == <<aheap, ahandles, afailed, ares>>
bvars == <<adoc, bnodes, bdocs, bres>>
svars == <<sseq, sres>>
nvars == <<nmaps, nres>>
pvars == <<namespace, pinput, pentry, pres>>
tvars == <<tsrc, tstyle, tpc, tout, tmsgs, tkeys, tres>>
vars == <<qvars, avars, bvars, svars, nvars, pvars, tvars>>

\* What the actions of one specification leave alone of the others
qrest == <<avars, bvars, svars, nvars, pvars, tvars>>
arest == <<qvars, bvars, svars, nvars, pvars, tvars>>
brest == <<qvars, avars, svars, nvars, pvars, tvars>>
srest == <<qvars, avars, bvars, nvars, pvars, tvars>>
nrest == <<qvars, avars, bvars, svars, pvars, tvars>>
prest == <<qvars, avars, bvars, svars, nvars, tvars>>
trest == <<qvars, avars, bvars, svars, nvars, pvars>>

None == <<>>
Some(x) == <<x>>
Unwrap(o) == o[1]
IsSome(o) == o # None

(***************************************************************************)
(* Bounds of the model                                                     *)
(***************************************************************************)
MaxEntries == 2      \* insertions into the QHash under test
MaxRcs == 3          \* Rc pointers to A-nodes and A-documents alive at any time
MaxAllocs == 6       \* Rc allocations of B-documents and B-nodes in one behaviour
MaxTree == 4         \* nodes of an ADoc made of elements and text only
MaxDecls == 2        \* declarations in the prologue of an ADoc
MaxSeqLen == 3       \* items pushed on the Sequence under test
MaxMaps == 2         \* namespace maps in the list a name is resolved against
MaxPieces == 2       \* pieces between the quotes of an attribute value
MaxAttrs == 2        \* attributes in the start tag given to the attribute parser
MaxDepth == 3        \* elements open at the same time
MaxTokens == 5       \* tags and text runs in the input given to parse

(***************************************************************************)
(* QualifiedName (src/src/qname.rs)                                        *)
(***************************************************************************)
QualifiedName(nsuri, prefix, localname) ==
    [nsuri |-> nsuri, prefix |-> prefix, localname |-> localname]

\* The names the QName specification draws from: absent, empty and non-empty
\* namespace URIs, three prefixes, and local names chosen so that one
\* (nsuri, localname) pair concatenates to another local name.
QNsUris == {None, Some(<<>>), Some(<<"u">>)}
QPrefixes == {None, Some(<<"x">>), Some(<<"y">>)}
QLocals == {<<"v">>, <<"u", "v">>}
QNames == {QualifiedName(n, p, l) : n \in QNsUris, p \in QPrefixes, l \in QLocals}
QVals == {1, 2}

\* A mutant of eq: the prefix is compared as well.
QEqWithPrefix(a, b) ==
    /\ a.nsuri = b.nsuri
    /\ a.localname = b.localname
    /\ a.prefix = b.prefix

\* impl PartialEq for QualifiedName: the nested map_or_else on both nsuri.
QEq(a, b) ==
    IF a.nsuri = None
    THEN (IF b.nsuri = None THEN a.localname = b.localname ELSE FALSE)
    ELSE (IF b.nsuri = None
          THEN FALSE
          ELSE Unwrap(a.nsuri) = Unwrap(b.nsuri) /\ a.localname = b.localname)

\* Hash for str: the bytes of the string, then the terminator byte 0xFF.
StrHash(s) == s \o <<"0xFF">>

\* A mutant of hash: the prefix is fed to the hasher too.
QHashWithPrefix(q) ==
    (IF IsSome(q.nsuri) THEN StrHash(Unwrap(q.nsuri)) ELSE <<>>)
        \o (IF IsSome(q.prefix) THEN StrHash(Unwrap(q.prefix)) ELSE <<>>)
        \o StrHash(q.localname)

\* impl Hash for QualifiedName: what is written to the hasher.
QHashOf(q) ==
    (IF IsSome(q.nsuri) THEN StrHash(Unwrap(q.nsuri)) ELSE <<>>)
        \o StrHash(q.localname)

\* HashMap<QualifiedName, T>: an entry is found by a key that hashes like the
\* stored key and is equal to it.
QHashMatches(h, k) == {e \in h : QHashOf(e.key) = QHashOf(k) /\ QEq(e.key, k)}

\* HashMap::get
QHashGet(h, k) ==
    IF QHashMatches(h, k) = {}
    THEN None
    ELSE Some((CHOOSE e \in QHashMatches(h, k) : TRUE).val)

\* HashMap::insert: an equal key keeps the stored key and replaces its value.
QHashInsert(h, k, v) ==
    IF QHashMatches(h, k) = {}
    THEN h \cup {[key |-> k, val |-> v]}
    ELSE LET old == CHOOSE e \in QHashMatches(h, k) : TRUE
         IN  (h \ {old}) \cup {[key |-> old.key, val |-> v]}


(***************************************************************************)
(* The values the variables of one specification keep under the others     *)
(***************************************************************************)
QNew == [op |-> "new", key |-> QualifiedName(None, None, <<"v">>),
         val |-> 0, ret |-> None, n |-> 0]
QIdle == qh = {} /\ qlast = QNew

\* Result<T, Error>, and Error{kind, message} of xdmerror
NoResult == [tag |-> "None"]
Ok(v) == [tag |-> "Ok", val |-> v]
Err(kind, message) == [tag |-> "Err", kind |-> kind, message |-> message]
Unit == <<>>

FreeObj == [alloc |-> FALSE, kind |-> "free", children |-> <<>>, strong |-> 0]
ObjIds == 1 .. MaxRcs
AIdle ==
    /\ aheap = [i \in ObjIds |-> FreeObj]
    /\ ahandles = [i \in ObjIds |-> 0]
    /\ afailed = {}
    /\ ares = NoResult

\* No conversion has been called: an empty ADoc and no B allocation
BNoCall == [op |-> "none", node |-> 0, ret |-> NoResult, cur |-> 0, ended |-> FALSE]
BIdle ==
    /\ adoc = [prologue |-> <<>>, content |-> <<>>, epilogue |-> <<>>]
    /\ bnodes = <<>>
    /\ bdocs = <<>>
    /\ bres = BNoCall

\* No sequence operation has been called: an empty Sequence
SNoCall == [op |-> "none", args |-> <<>>, ret |-> NoResult]
SIdle ==
    /\ sseq = <<>>
    /\ sres = SNoCall
NIdle ==
    /\ nmaps = <<>>
    /\ nres = SNoCall
PIdle ==
    /\ namespace = <<>>
    /\ pinput = <<>>
    /\ pentry = <<>>
    /\ pres = SNoCall

\* No stylesheet has been compiled: a context with no source and no keys
TStart == [node |-> 1, instr |-> 1]
TIdle ==
    /\ tsrc = <<>>
    /\ tstyle = [msg |-> "none", sink |-> "ok"]
    /\ tpc = TStart
    /\ tout = <<>>
    /\ tmsgs = <<>>
    /\ tkeys = {}
    /\ tres = SNoCall

QInit ==
    /\ AIdle
    /\ QIdle
    /\ BIdle
    /\ SIdle /\ TIdle
    /\ NIdle
    /\ PIdle

\* h.insert(k, v)
QInsert(k, v) ==
    /\ qlast.n < MaxEntries
    /\ qh' = QHashInsert(qh, k, v)
    /\ qlast' = [op |-> "insert", key |-> k, val |-> v,
                 ret |-> QHashGet(qh, k), n |-> qlast.n + 1]
    /\ UNCHANGED qrest

\* h.get(&k)
QGet(k) ==
    /\ qlast.op # "new"
    /\ qh' = qh
    /\ qlast' = [op |-> "get", key |-> k, val |-> 0,
                 ret |-> QHashGet(qh, k), n |-> qlast.n]
    /\ UNCHANGED qrest

QNext ==
    \/ \E k \in QNames, v \in QVals : QInsert(k, v)
    \/ \E k \in QNames : QGet(k)

SpecQName == QInit /\ [][QNext]_vars

(***************************************************************************)
(* C1: two QualifiedNames are equal exactly when they have the same         *)
(* namespace URI (both absent, or both present and equal) and the same      *)
(* local name, whatever their prefixes; equal names hash identically; so a  *)
(* QHash lookup finds an entry under any name that differs from the stored  *)
(* key only in prefix, holds one entry per (URI, local name), returns the   *)
(* value last inserted under such a name, and never answers an unqualified  *)
(* name with a qualified entry or the reverse.                              *)
(***************************************************************************)
SameExpandedName(a, b) == a.nsuri = b.nsuri /\ a.localname = b.localname

C1_NameEquality ==
    /\ \A e \in qh : \A k \in QNames :
          /\ QEq(e.key, k) <=> SameExpandedName(e.key, k)
          /\ QEq(k, e.key) <=> SameExpandedName(e.key, k)
          /\ QEq(e.key, k) => QHashOf(e.key) = QHashOf(k)
          /\ SameExpandedName(e.key, k) => QHashGet(qh, k) = Some(e.val)
          /\ (e.key.localname = k.localname /\ (e.key.nsuri = None) # (k.nsuri = None))
                => QHashGet(qh, k) # Some(e.val)
                   \/ \E f \in qh : SameExpandedName(f.key, k) /\ f.val = e.val
    /\ \A e, f \in qh : SameExpandedName(e.key, f.key) => e = f
    /\ \A k \in QNames :
          QHashGet(qh, k) = None <=> ~ \E e \in qh : SameExpandedName(e.key, k)
    /\ qlast.op = "insert" =>
          \A k \in QNames :
             SameExpandedName(k, qlast.key) => QHashGet(qh, k) = Some(qlast.val)
    /\ qlast.op = "get" =>
          \/ qlast.ret = None /\ ~ \E e \in qh : SameExpandedName(e.key, qlast.key)
          \/ \E e \in qh : SameExpandedName(e.key, qlast.key) /\ qlast.ret = Some(e.val)

\* A qualified entry stored as x:v is found as y:v while an unqualified v with
\* another value sits in the same map.
C1_Witness ==
    /\ qlast.op = "get"
    /\ IsSome(qlast.key.nsuri)
    /\ \E e \in qh :
          /\ SameExpandedName(e.key, qlast.key)
          /\ e.key.prefix # qlast.key.prefix
          /\ qlast.ret = Some(e.val)
          /\ \E f \in qh :
                /\ f.key.nsuri = None
                /\ f.key.localname = e.key.localname
                /\ f.val # e.val

(***************************************************************************)
(* The build-phase tree: Rc<ANode> and Rc<ADoc> (src/src/rctree.rs)         *)
(*                                                                         *)
(* aheap[i] is one Rc allocation: its strong count, and the ANode's         *)
(* children vector (for an ADoc, its content vector).  No Weak to an A      *)
(* allocation is ever made, so the weak count is always 0.  A handle is an  *)
(* Rc held in a variable of the caller; a vector element is an Rc too.      *)
(***************************************************************************)
AFree == {i \in ObjIds : ~ aheap[i].alloc}

RECURSIVE SumOver(_, _)
SumOver(f, S) ==
    IF S = {} THEN 0
    ELSE LET i == CHOOSE j \in S : TRUE IN f[i] + SumOver(f, S \ {i})

\* The Rc pointers alive: the caller's handles and the elements of the vectors.
ALiveRcs ==
    SumOver(ahandles, ObjIds) + SumOver([i \in ObjIds |-> Len(aheap[i].children)], ObjIds)

\* Drop of an Rc: the strong count goes down by one; at zero the value is
\* dropped, and with it every Rc of its children vector.
RECURSIVE RcDrop(_, _)
RcDrop(heap, pending) ==
    IF pending = <<>>
    THEN heap
    ELSE LET i == Head(pending)
         IN  IF heap[i].strong > 1
             THEN RcDrop([heap EXCEPT ![i].strong = @ - 1], Tail(pending))
             ELSE RcDrop([heap EXCEPT ![i] = FreeObj],
                         heap[i].children \o Tail(pending))

\* A mutant of Rc::get_mut: the strong count is not looked at.
RcGetMutAlways(heap, i) == TRUE

\* Rc::get_mut(self): Some exactly when this handle is the only pointer to
\* the allocation (strong count 1, and no Weak).
RcGetMut(heap, i) == heap[i].strong = 1

\* Rc::new(ANodeBuilder::new(NodeType::Element).build()) and
\* Rc::new(ADocBuilder::new().build())
ANewObj(kind) ==
    /\ ALiveRcs < MaxRcs
    /\ LET i == CHOOSE j \in AFree : \A k \in AFree : j <= k
       IN  /\ aheap' = [aheap EXCEPT ![i] =
                  [alloc |-> TRUE, kind |-> kind, children |-> <<>>, strong |-> 1]]
           /\ ahandles' = [ahandles EXCEPT ![i] = 1]
    /\ ares' = NoResult
    /\ UNCHANGED <<afailed, arest>>

\* Rc::clone of a handle the caller holds
AClone(i) ==
    /\ ahandles[i] >= 1
    /\ ALiveRcs < MaxRcs
    /\ aheap' = [aheap EXCEPT ![i].strong = @ + 1]
    /\ ahandles' = [ahandles EXCEPT ![i] = @ + 1]
    /\ ares' = NoResult
    /\ UNCHANGED <<afailed, arest>>

\* drop of a handle the caller holds
ADrop(i) ==
    /\ ahandles[i] >= 1
    /\ aheap' = RcDrop(aheap, <<i>>)
    /\ ahandles' = [ahandles EXCEPT ![i] = @ - 1]
    /\ afailed' = afailed \ {j \in ObjIds : ~ aheap'[j].alloc}
    /\ ares' = NoResult
    /\ UNCHANGED arest

\* RWNode::push and RWDocument::push_content: the handle n is moved into the
\* call.  With get_mut it goes into the vector; without, it is dropped when
\* the call returns the error.
APushTo(p, c) ==
    /\ ahandles[p] >= 1
    /\ ahandles[c] >= (IF p = c THEN 2 ELSE 1)
    /\ aheap[c].kind = "node"
    /\ ahandles' = [ahandles EXCEPT ![c] = @ - 1]
    /\ IF RcGetMut(aheap, p)
       THEN /\ aheap' = [aheap EXCEPT ![p].children = Append(@, c)]
            /\ ares' = Ok(Unit)
            /\ afailed' = afailed
       ELSE /\ aheap' = RcDrop(aheap, <<c>>)
            /\ ares' = Err("Unknown", IF aheap[p].kind = "doc"
                                      THEN "unable to mutate document"
                                      ELSE "unable to mutate node")
            /\ afailed' = (afailed \cup {p}) \ {j \in ObjIds : ~ aheap'[j].alloc}
    /\ UNCHANGED arest

\* p.push(n) on an RANode
APush(p, c) == aheap[p].kind = "node" /\ APushTo(p, c)

\* d.push_content(n) on an RADoc
APushContent(d, c) == aheap[d].kind = "doc" /\ APushTo(d, c)

AInit == AIdle /\ QIdle /\ BIdle /\ SIdle /\ TIdle /\ NIdle /\ PIdle

ANext ==
    \/ ANewObj("node")
    \/ ANewObj("doc")
    \/ \E i \in ObjIds : AClone(i)
    \/ \E i \in ObjIds : ADrop(i)
    \/ \E p, c \in ObjIds : APush(p, c)
    \/ \E d, c \in ObjIds : APushContent(d, c)

SpecATree == AInit /\ [][ANext]_vars

(***************************************************************************)
(* C2: after any sequence of pushes, clones and drops, push(child) on a     *)
(* node and push_content(child) on a document return Ok exactly when the    *)
(* handle used for the call is the only holder of the target (no other      *)
(* handle and no vector holds it); on Ok the child is the new last element  *)
(* and the earlier children are as before; on Err the children are          *)
(* unchanged; the stored strong count always equals the number of holders,  *)
(* so a target that refused a push accepts one once it is uniquely held.    *)
(***************************************************************************)
RECURSIVE CountIn(_, _)
CountIn(seq, x) ==
    IF seq = <<>> THEN 0
    ELSE (IF Head(seq) = x THEN 1 ELSE 0) + CountIn(Tail(seq), x)

\* The holders of allocation i: the caller's handles and the vector elements.
AHolders(i) ==
    ahandles[i] + SumOver([o \in ObjIds |-> CountIn(aheap[o].children, i)], ObjIds)

C2_PushStep(p, c) ==
    APushTo(p, c) =>
        /\ ares'.tag = "Ok" <=> AHolders(p) = 1
        /\ ares'.tag = "Err" <=> AHolders(p) > 1
        /\ ares'.tag = "Ok" => aheap'[p].children = Append(aheap[p].children, c)
        /\ ares'.tag = "Err" => aheap'[p].children = aheap[p].children
        /\ \A o \in ObjIds \ {p} :
              aheap'[o].alloc => aheap'[o].children = aheap[o].children

C2_PushWhenUnique ==
    /\ [](\A i \in ObjIds :
            /\ aheap[i].alloc => aheap[i].strong = AHolders(i) /\ AHolders(i) >= 1
            /\ ~ aheap[i].alloc => AHolders(i) = 0)
    /\ [][\A p, c \in ObjIds : C2_PushStep(p, c)]_vars

\* A target that refused a push while shared has since taken two children.
C2_Witness ==
    /\ ares.tag = "Ok"
    /\ \E p \in afailed :
          /\ Len(aheap[p].children) >= 2
          /\ aheap[p].children[1] # aheap[p].children[2]

(***************************************************************************)
(* The XML content parser (src/src/parsexml.rs), a nom combinator parser.   *)
(* A parser takes the input and gives Ok((rest, output)) or Err(Error):     *)
(* POk(rest, out) or PErr.  No parser here gives Failure or Incomplete.     *)
(***************************************************************************)
POk(rest, out) == [ok |-> TRUE, rest |-> rest, out |-> out]
PErr == [ok |-> FALSE, rest |-> <<>>, out |-> <<>>]

\* Vec<String>::concat
RECURSIVE Concat(_)
Concat(strs) == IF strs = <<>> THEN <<>> ELSE Head(strs) \o Concat(Tail(strs))

Take(s, n) == SubSeq(s, 1, n)
Drop(s, n) == SubSeq(s, n + 1, Len(s))

\* The length of the longest prefix of s made of characters in S.
RECURSIVE PrefixIn(_, _)
PrefixIn(s, S) ==
    IF s # <<>> /\ Head(s) \in S THEN 1 + PrefixIn(Tail(s), S) ELSE 0

\* The length of the longest prefix of s made of characters not in S.
RECURSIVE PrefixNotIn(_, _)
PrefixNotIn(s, S) ==
    IF s # <<>> /\ Head(s) \notin S THEN 1 + PrefixNotIn(Tail(s), S) ELSE 0

\* The number of characters before the first occurrence of lit in s, or -1.
RECURSIVE FindSub(_, _)
FindSub(s, lit) ==
    IF Len(s) < Len(lit) THEN -1
    ELSE IF Take(s, Len(lit)) = lit THEN 0
    ELSE LET r == FindSub(Tail(s), lit) IN IF r < 0 THEN -1 ELSE r + 1

\* nom::bytes::complete::tag
PTag(lit, s) ==
    IF Len(s) >= Len(lit) /\ Take(s, Len(lit)) = lit
    THEN POk(Drop(s, Len(lit)), lit)
    ELSE PErr

\* nom::bytes::complete::take_until
PTakeUntil(lit, s) ==
    LET n == FindSub(s, lit) IN IF n < 0 THEN PErr ELSE POk(Drop(s, n), Take(s, n))

\* nom::character::complete::multispace0 and multispace1
WhiteSpace == {" ", "\t", "\r", "\n"}
PMultispace0(s) == LET n == PrefixIn(s, WhiteSpace) IN POk(Drop(s, n), Take(s, n))
PMultispace1(s) ==
    LET n == PrefixIn(s, WhiteSpace) IN IF n >= 1 THEN POk(Drop(s, n), Take(s, n)) ELSE PErr

\* nom::combinator::opt
POpt(r, s) == IF r.ok THEN POk(r.rest, Some(r.out)) ELSE POk(s, None)

\* nom::branch::alt, on the results of two alternatives
PAlt(r1, r2) == IF r1.ok THEN r1 ELSE r2

\* parsecommon::ncname and parsecommon::name: an XML NCName, and an XML Name
\* (which may hold colons).
Letters ==
    {"a", "b", "c", "d", "e", "f", "g", "h", "i", "j", "k", "l", "m", "n", "o",
     "p", "q", "r", "s", "t", "u", "v", "w", "x", "y", "z", "A", "B", "C", "D",
     "E", "F", "G", "H", "I", "J", "K", "L", "M", "N", "O", "P", "Q", "R", "S",
     "T", "U", "V", "W", "X", "Y", "Z", "_"}
Digits == {"0", "1", "2", "3", "4", "5", "6", "7", "8", "9"}
NcNameChars == Letters \cup Digits \cup {"-", "."}
PNcname(s) ==
    IF s # <<>> /\ Head(s) \in Letters
    THEN LET n == 1 + PrefixIn(Tail(s), NcNameChars) IN POk(Drop(s, n), Take(s, n))
    ELSE PErr
PName(s) ==
    IF s # <<>> /\ Head(s) \in Letters \cup {":"}
    THEN LET n == 1 + PrefixIn(Tail(s), NcNameChars \cup {":"})
         IN  POk(Drop(s, n), Take(s, n))
    ELSE PErr

\* qualname = alt((prefixed_name, unprefixed_name))
PQualname(s) ==
    LET a == PNcname(s)
        c == PTag(<<":">>, a.rest)
        b == PNcname(c.rest)
    IN  IF ~ a.ok THEN PErr
        ELSE IF c.ok /\ b.ok
             THEN POk(b.rest, QualifiedName(None, Some(a.out), b.out))
             ELSE POk(a.rest, QualifiedName(None, None, a.out))

\* XMLNode
XElement(n, a, c) == [kind |-> "Element", name |-> Some(n), attrs |-> a,
                      content |-> c, value |-> None, target |-> None]
XAttribute(n, v) == [kind |-> "Attribute", name |-> Some(n), attrs |-> <<>>,
                     content |-> <<>>, value |-> Some(v), target |-> None]
XText(v) == [kind |-> "Text", name |-> None, attrs |-> <<>>,
             content |-> <<>>, value |-> Some(v), target |-> None]
XPI(t, v) == [kind |-> "PI", name |-> None, attrs |-> <<>>,
              content |-> <<>>, value |-> Some(v), target |-> Some(t)]
XComment(v) == [kind |-> "Comment", name |-> None, attrs |-> <<>>,
                content |-> <<>>, value |-> Some(v), target |-> None]

\* string_single, string_double: a quote, many0(none_of(quote)), the quote
PQuoted(q, s) ==
    LET o == PTag(<<q>>, s)
        n == PrefixNotIn(o.rest, {q})
        c == PTag(<<q>>, Drop(o.rest, n))
    IN  IF o.ok /\ c.ok THEN POk(c.rest, Take(o.rest, n)) ELSE PErr

\* delimited_string = alt((string_single, string_double))
PDelimitedString(s) == PAlt(PQuoted("'", s), PQuoted("\"", s))

\* attribute = multispace1 qualname multispace0 "=" multispace0 delimited_string
PAttribute(s) ==
    LET w == PMultispace1(s)
        n == PQualname(w.rest)
        e == PTag(<<"=">>, PMultispace0(n.rest).rest)
        v == PDelimitedString(PMultispace0(e.rest).rest)
    IN  IF ~ w.ok THEN PErr
        ELSE IF ~ n.ok THEN PErr
        ELSE IF ~ e.ok THEN PErr
        ELSE IF ~ v.ok THEN PErr
        ELSE POk(v.rest, XAttribute(n.out, v.out))

\* many0(attribute)
RECURSIVE PAttributes(_)
PAttributesFrom(s, a) ==
    IF ~ a.ok THEN POk(s, <<>>)
    ELSE LET m == PAttributes(a.rest) IN POk(m.rest, <<a.out>> \o m.out)
PAttributes(s) == PAttributesFrom(s, PAttribute(s))

\* chardata = many1(none_of("<&"))
PChardata(s) ==
    LET n == PrefixNotIn(s, {"<", "&"})
    IN  IF n >= 1 THEN POk(Drop(s, n), Take(s, n)) ELSE PErr

\* reference: not implemented in the source, it matches this literal only
NotYetImplemented ==
    <<"n", "o", "t", " ", "y", "e", "t", " ", "i", "m", "p", "l", "e", "m", "e",
      "n", "t", "e", "d">>
PReference(s) ==
    LET t == PTag(NotYetImplemented, s)
    IN  IF t.ok THEN POk(t.rest, XText(NotYetImplemented)) ELSE PErr

\* processing_instruction = "<?" multispace0 name multispace0 take_until("?>") "?>"
PProcessingInstruction(s) ==
    LET o == PTag(<<"<", "?">>, s)
        n == PName(PMultispace0(o.rest).rest)
        v == PTakeUntil(<<"?", ">">>, PMultispace0(n.rest).rest)
        c == PTag(<<"?", ">">>, v.rest)
    IN  IF ~ o.ok THEN PErr
        ELSE IF ~ n.ok THEN PErr
        ELSE IF ~ v.ok THEN PErr
        ELSE IF ~ c.ok THEN PErr
        ELSE POk(c.rest, XPI(n.out, v.out))

\* comment = "<!--" take_until("--") "-->"
PComment(s) ==
    LET o == PTag(<<"<", "!", "-", "-">>, s)
        v == PTakeUntil(<<"-", "-">>, o.rest)
        c == PTag(<<"-", "-", ">">>, v.rest)
    IN  IF ~ o.ok THEN PErr
        ELSE IF ~ v.ok THEN PErr
        ELSE IF ~ c.ok THEN PErr
        ELSE POk(c.rest, XComment(v.out))

\* emptyelem = "<" multispace0 qualname many0(attribute) multispace0 "/>"
PEmptyElem(s) ==
    LET o == PTag(<<"<">>, s)
        n == PQualname(PMultispace0(o.rest).rest)
        a == PAttributes(n.rest)
        c == PTag(<<"/", ">">>, PMultispace0(a.rest).rest)
    IN  IF ~ o.ok THEN PErr
        ELSE IF ~ n.ok THEN PErr
        ELSE IF ~ c.ok THEN PErr
        ELSE POk(c.rest, XElement(n.out, a.out, <<>>))

RECURSIVE PContent(_), PContentItems(_), PElement(_), PTaggedElem(_)

\* taggedelem = "<" multispace0 qualname many0(attribute) multispace0 ">"
\*              content "</" multispace0 qualname multispace0 ">"
\* The end tag's name is parsed and not compared with the start tag's.
PTaggedElem(s) ==
    LET o == PTag(<<"<">>, s)
        n == PQualname(PMultispace0(o.rest).rest)
        a == PAttributes(n.rest)
        g == PTag(<<">">>, PMultispace0(a.rest).rest)
        c == PContent(g.rest)
        t == PTag(<<"<", "/">>, c.rest)
        e == PQualname(PMultispace0(t.rest).rest)
        h == PTag(<<">">>, PMultispace0(e.rest).rest)
    IN  IF ~ o.ok THEN PErr
        ELSE IF ~ n.ok THEN PErr
        ELSE IF ~ g.ok THEN PErr
        ELSE IF ~ c.ok THEN PErr
        ELSE IF ~ t.ok THEN PErr
        ELSE IF ~ e.ok THEN PErr
        ELSE IF ~ h.ok THEN PErr
        ELSE POk(h.rest, XElement(n.out, a.out, c.out))

\* element = alt((emptyelem, taggedelem))
PElement(s) == PAlt(PEmptyElem(s), PTaggedElem(s))

\* many0(tuple((alt((element, reference, processing_instruction, comment)),
\*              opt(chardata)))), with the nodes pushed as content() pushes them:
\* w is what the alt gave, d what opt(chardata) gave after it
PContentItemsPush(w, d) ==
    LET m == PContentItems(d.rest)
    IN  POk(m.rest,
            <<w.out>> \o (IF IsSome(d.out) THEN <<XText(Unwrap(d.out))>> ELSE <<>>)
                \o m.out)
PContentItemsFrom(s, w) ==
    IF ~ w.ok
    THEN POk(s, <<>>)
    ELSE PContentItemsPush(w, POpt(PChardata(w.rest), w.rest))
PContentItems(s) ==
    PContentItemsFrom(s, PAlt(PElement(s),
                              PAlt(PReference(s),
                                   PAlt(PProcessingInstruction(s), PComment(s)))))

\* content = opt(chardata) many0(...): c is what opt(chardata) gave, v what
\* many0 gave after it
PContentPush(c, v) ==
    POk(v.rest, (IF IsSome(c.out) THEN <<XText(Unwrap(c.out))>> ELSE <<>>) \o v.out)
PContentFrom(c) == PContentPush(c, PContentItems(c.rest))
PContent(s) == PContentFrom(POpt(PChardata(s), s))

(***************************************************************************)
(* ANode and ADoc as values (src/src/rctree.rs).  The conversion only reads *)
(* the A-tree, so the tree it is given is modelled by its value.            *)
(***************************************************************************)
EmptyString == <<>>

\* QualifiedName's Display: prefix ":" localname, or localname
QToString(q) ==
    (IF IsSome(q.prefix) THEN Unwrap(q.prefix) \o <<":">> ELSE <<>>) \o q.localname

\* ANode::new
ANodeNew(t) ==
    [node_type |-> t, children |-> <<>>, name |-> None, value |-> None,
     pi_name |-> None, dtd |-> None, reference |-> None]

\* ANodeBuilder: name, value, pi_name, dtd, reference; and push on a node
\* that is uniquely held
ABuildName(n, qn) == [n EXCEPT !.name = Some(qn)]
ABuildValue(n, v) == [n EXCEPT !.value = Some(v)]
ABuildPiName(n, t) == [n EXCEPT !.pi_name = Some(t)]
ABuildDtd(n, d) == [n EXCEPT !.dtd = Some(d)]
ABuildReference(n, qn) == [n EXCEPT !.reference = Some(qn)]
ABuildChildren(n, c) == [n EXCEPT !.children = c]

\* DTDDecl::GeneralEntity(name, raw text)
GeneralEntity(n, c) == [name |-> n, raw |-> c]

\* ADocBuilder
ADocBuild(p, c, e) == [prologue |-> p, content |-> c, epilogue |-> e]

\* RWNode for RANode: node_type, name, value, child_iter
ANodeName(n) ==
    IF IsSome(n.name) THEN Unwrap(n.name) ELSE QualifiedName(None, None, EmptyString)
ANodeValue(n) == IF IsSome(n.value) THEN Unwrap(n.value) ELSE EmptyString
ANodeChildIter(n) == IF n.node_type = "Element" THEN n.children ELSE <<>>

(***************************************************************************)
(* BDoc and BNode, and the conversion TryFrom<ADoc> for RBDoc               *)
(*                                                                         *)
(* A B-node is an allocation, named by its index in the sequence of nodes;  *)
(* doc and parent are Weak pointers, children are Rc pointers.  A Weak      *)
(* pointer that was never set to an allocation is 0.                        *)
(***************************************************************************)
BNode(doc, t, parent, children, name, value) ==
    [doc |-> doc, node_type |-> t, parent |-> parent, children |-> children,
     name |-> name, value |-> value]

\* The allocation Rc::new_cyclic makes before its closure has run
BUninit == BNode(0, "Uninit", None, <<>>, None, None)

ConvOk(nodes, top) == [tag |-> "Ok", nodes |-> nodes, top |-> top]
ConvPanic(nodes) == [tag |-> "Panic", nodes |-> nodes, top |-> <<>>]

\* A mutant of from_anode: a child is given its grandparent as its parent.
FromANodeChildParentSkip(self, parent) == IF IsSome(parent) THEN parent ELSE Some(self)

\* The parent handed to the children of the node being built: Some(weak_self)
FromANodeChildParent(self, parent) == Some(self)

\* A mutant of from_anode: a child is given a Weak that points at no document.
FromANodeChildDocDangling(doc) == 0

\* The document handed to the children of the node being built: doc.clone()
FromANodeChildDoc(doc) == doc

RECURSIVE FromANode(_, _, _, _, _), FromANodes(_, _, _, _, _)

\* BNode::from_anode(n, doc, parent, entities), allocating in nodes.  The
\* result's top is the one new node; a panic inside unwinds the conversion.
FromANode(n, doc, parent, entities, nodes) ==
    LET self == Len(nodes) + 1
        alloc == Append(nodes, BUninit)
        kids == FromANodes(ANodeChildIter(n), FromANodeChildDoc(doc),
                           FromANodeChildParent(self, parent), entities, alloc)
    IN  CASE n.node_type = "Element" ->
                IF kids.tag = "Panic" THEN kids
                ELSE ConvOk([kids.nodes EXCEPT ![self] =
                                BNode(doc, "Element", parent, kids.top,
                                      Some(ANodeName(n)), None)],
                            <<self>>)
          [] n.node_type = "Attribute" ->
                ConvOk([alloc EXCEPT ![self] =
                           BNode(doc, "Attribute", parent, <<>>,
                                 Some(ANodeName(n)), Some(ANodeValue(n)))],
                       <<self>>)
          [] n.node_type = "Text" ->
                ConvOk([alloc EXCEPT ![self] =
                           BNode(doc, "Text", parent, <<>>, None, Some(ANodeValue(n)))],
                       <<self>>)
          [] n.node_type = "ProcessingInstruction" ->
                IF n.pi_name = None
                THEN ConvPanic(nodes)
                ELSE ConvOk([alloc EXCEPT ![self] =
                                BNode(doc, "ProcessingInstruction", parent, <<>>,
                                      Some(QualifiedName(None, None, Unwrap(n.pi_name))),
                                      Some(ANodeValue(n)))],
                            <<self>>)
          [] n.node_type = "Comment" ->
                ConvOk([alloc EXCEPT ![self] =
                           BNode(doc, "Comment", parent, <<>>, None, Some(ANodeValue(n)))],
                       <<self>>)
          [] OTHER ->
                ConvOk([alloc EXCEPT ![self] =
                           BNode(doc, "Unknown", parent, <<>>, None, None)],
                       <<self>>)

\* into_iter().map(|n| BNode::from_anode(n, doc, parent, entities)).collect()
FromANodes(ns, doc, parent, entities, nodes) ==
    IF ns = <<>>
    THEN ConvOk(nodes, <<>>)
    ELSE LET first == FromANode(Head(ns), doc, parent, entities, nodes)
             others == FromANodes(Tail(ns), doc, parent, entities, first.nodes)
         IN  IF first.tag = "Panic" THEN first
             ELSE IF others.tag = "Panic" THEN others
             ELSE ConvOk(others.nodes, first.top \o others.top)

\* The loop over the prologue that fills the entity map: the map, an Error,
\* or the panic of unwrap() on a node of type Unknown without a DTD declaration.
RECURSIVE CollectEntities(_, _)

\* The body of the loop for the declaration d, r being what content() gave
\* for its raw text
CollectEntity(prologue, ent, d, r) ==
    IF ~ r.ok
    THEN Err("Unknown", <<"parser error">>)
    ELSE IF Len(r.rest) # 0
    THEN Err("Unknown", <<"unable to parse general entity", QToString(d.name)>>)
    ELSE IF IsSome(QHashGet(ent, d.name))
    THEN Err("Unknown", <<"general entity already defined", QToString(d.name)>>)
    ELSE CollectEntities(Tail(prologue), QHashInsert(ent, d.name, r.out))

CollectEntities(prologue, ent) ==
    IF prologue = <<>>
    THEN Ok(ent)
    ELSE IF Head(prologue).node_type # "Unknown"
    THEN CollectEntities(Tail(prologue), ent)
    ELSE IF Head(prologue).dtd = None
    THEN [tag |-> "Panic"]
    ELSE CollectEntity(prologue, ent, Unwrap(Head(prologue).dtd),
                       PContent(Unwrap(Head(prologue).dtd).raw))

\* The second half of try_from: the document d built by Rc::new_cyclic from
\* the three parts of a, given what the entity loop returned
TryFromBuild(a, d, nodes, ent) ==
    LET new == FromANodes(a.prologue \o a.content \o a.epilogue, d, None,
                          ent.val, nodes)
    IN  IF ent.tag # "Ok"
        THEN [res |-> ent, nodes |-> nodes, top |-> <<>>]
        ELSE IF new.tag = "Panic"
        THEN [res |-> [tag |-> "Panic"], nodes |-> nodes, top |-> <<>>]
        ELSE [res |-> Ok(d), nodes |-> new.nodes, top |-> new.top]

\* RBDoc::try_from(a) with the new document allocated as d: the result, and
\* the node allocations after it.
TryFrom(a, d, nodes) == TryFromBuild(a, d, nodes, CollectEntities(a.prologue, {}))

(***************************************************************************)
(* The A-documents handed to the conversion: every forest of elements and   *)
(* text nodes of at most MaxTree nodes, and documents with a                *)
(* prologue of declarations, references, processing instructions, comments. *)
(***************************************************************************)
AElement == ABuildName(ANodeNew("Element"), QualifiedName(None, None, <<"a">>))
AText == ABuildValue(ANodeNew("Text"), <<"t">>)
AComment == ABuildValue(ANodeNew("Comment"), <<"c">>)
APi == ABuildValue(ABuildPiName(ANodeNew("ProcessingInstruction"), <<"p">>), <<"d">>)
APiNoTarget == ABuildValue(ANodeNew("ProcessingInstruction"), <<"d">>)
AUnknownBare == ANodeNew("Unknown")
ADecl(n, c) == ABuildDtd(ANodeNew("Unknown"), GeneralEntity(n, c))
ARef(n) == ABuildReference(ANodeNew("Unknown"), n)

RECURSIVE ATreesOfSize(_), AForestsOfSize(_)
ATreesOfSize(k) ==
    (IF k = 1 THEN {AText} ELSE {})
        \cup {ABuildChildren(AElement, f) : f \in AForestsOfSize(k - 1)}
AForestsOfSize(k) ==
    IF k = 0
    THEN {<<>>}
    ELSE UNION {{<<t>> \o f : t \in ATreesOfSize(j), f \in AForestsOfSize(k - j)} :
                   j \in 1 .. k}

NavDocs ==
    {ADocBuild(<<>>, f, <<>>) :
        f \in UNION {AForestsOfSize(k) : k \in 0 .. MaxTree}}

\* Entity names: e and x:e are equal names, f is another one, g is never declared.
EntNames == {QualifiedName(None, None, <<"e">>),
             QualifiedName(None, Some(<<"x">>), <<"e">>),
             QualifiedName(None, None, <<"f">>)}
EntUndeclared == QualifiedName(None, None, <<"g">>)
\* Raw texts: character data, an element, an element that is never closed
EntRaws == {<<"t">>, <<"<", "a", "/", ">">>, <<"<", "a", ">">>}
EntPrologNodes == {ADecl(n, c) : n \in EntNames, c \in EntRaws} \cup {AUnknownBare}
EntBodies ==
    {ADocBuild(<<>>, c, e) :
        c \in {<<>>,
               <<ABuildChildren(AElement, <<ARef(QualifiedName(None, None, <<"e">>))>>)>>,
               <<ABuildChildren(AElement, <<ARef(EntUndeclared)>>)>>,
               <<ABuildChildren(AElement, <<APi>>)>>,
               <<ABuildChildren(AElement, <<APiNoTarget>>)>>},
        e \in {<<>>, <<AComment>>}}
EntDocs ==
    {[b EXCEPT !.prologue = p] :
        b \in EntBodies,
        p \in UNION {[1 .. k -> EntPrologNodes] : k \in 0 .. MaxDecls}}

RECURSIVE ASize(_), AForestSize(_)
ASize(n) == 1 + AForestSize(n.children)
AForestSize(f) == IF f = <<>> THEN 0 ELSE ASize(Head(f)) + AForestSize(Tail(f))
ADocSize(a) == AForestSize(a.prologue \o a.content \o a.epilogue)

ADocs == {a \in NavDocs \cup EntDocs : ADocSize(a) < MaxAllocs}

(***************************************************************************)
(* Document for RBDoc and Node for Rc<BNode>                               *)
(***************************************************************************)
BDocIds == 1 .. Len(bdocs)
BNodeIds == 1 .. Len(bnodes)

\* The BNodes the caller or a held document keeps alive from outside a
\* children vector: the nodes vector of every RBDoc the caller holds, and
\* the node the caller kept a handle on when it dropped an RBDoc.
BRoots ==
    UNION {{bdocs[d].nodes[i] : i \in 1 .. Len(bdocs[d].nodes)} :
              d \in {e \in BDocIds : bdocs[e].held}}
        \cup {bdocs[d].kept : d \in {e \in BDocIds : ~ bdocs[e].held /\ bdocs[e].kept # 0}}

RECURSIVE BOwned(_)
\* The allocations n keeps alive: itself and, through the children vectors,
\* its descendants
BOwned(n) ==
    {n} \cup UNION {BOwned(bnodes[n].children[i]) : i \in 1 .. Len(bnodes[n].children)}

\* The BNode allocations with a non-zero strong count
BAlive == UNION {BOwned(r) : r \in BRoots}

\* Weak::upgrade on a Weak<BDoc> and on a Weak<BNode>
WeakUpgradeDoc(d) == IF d \in BDocIds /\ bdocs[d].held THEN Some(d) ELSE None
WeakUpgradeNode(n) == IF n \in BAlive THEN Some(n) ELSE None

\* A mutant of owner_document: any document that is alive will do.
OwnerDocumentAnyDoc(n) ==
    IF \E d \in BDocIds : bdocs[d].held
    THEN Ok(CHOOSE d \in BDocIds : bdocs[d].held)
    ELSE Err("Unknown", <<"unable to find owner document">>)

\* owner_document
OwnerDocument(n) ==
    IF IsSome(WeakUpgradeDoc(bnodes[n].doc))
    THEN Ok(Unwrap(WeakUpgradeDoc(bnodes[n].doc)))
    ELSE Err("Unknown", <<"unable to find owner document">>)

\* Children::new: the iterator walks a clone of the children vector
ChildIter(n) == bnodes[n].children
\* DocChildren: the top-level nodes
DocChildIter(d) == bdocs[d].nodes

\* A mutant of Ancestors::next: the Weak is followed without upgrade, to a
\* parent that may have been freed.
AncestorsNextNoUpgrade(cur) == bnodes[cur].parent

\* Ancestors::next from cur: the parent if it is set and still alive
AncestorsNext(cur) ==
    IF bnodes[cur].parent = None
    THEN None
    ELSE WeakUpgradeNode(Unwrap(bnodes[cur].parent))

\* Node::parent: ancestor_iter().next()
Parent(n) == AncestorsNext(n)

RECURSIVE descendant_add(_), DescendFold(_)

\* A mutant of descendant_add: the node comes after its descendants.
DescendantAddPostOrder(n) == DescendFold(bnodes[n].children) \o <<n>>

\* descendant_add: the node, then the descendants of each child in turn
descendant_add(n) == <<n>> \o DescendFold(bnodes[n].children)

\* the fold of Descendants::new and the for_each of descendant_add
DescendFold(kids) ==
    IF kids = <<>> THEN <<>> ELSE descendant_add(Head(kids)) \o DescendFold(Tail(kids))

\* Descendants::new, read to its end
DescendIter(n) == DescendFold(bnodes[n].children)

\* Siblings::new(n, 1) and Siblings::new(n, -1) read to their end: next
\* returns None at the first call, whatever the node and the direction
NextIter(n) == <<>>
PrevIter(n) == <<>>

(***************************************************************************)
(* The specification of the conversion and of the navigation of B-trees     *)
(***************************************************************************)
BCall(op, n, ret) == [op |-> op, node |-> n, ret |-> ret, cur |-> 0, ended |-> FALSE]

\* unwrap() on None has aborted the program
BAborted == bres.op = "try_from" /\ bres.ret.tag = "Panic"

BInit ==
    /\ QIdle
    /\ AIdle
    /\ SIdle /\ TIdle
    /\ NIdle
    /\ PIdle
    /\ adoc \in ADocs
    /\ bnodes = <<>>
    /\ bdocs = <<>>
    /\ bres = BNoCall

\* RBDoc::try_from(adoc.clone())
BTryFrom ==
    /\ ~ BAborted
    /\ Len(bdocs) + 1 + Len(bnodes) + ADocSize(adoc) <= MaxAllocs
    /\ \E r \in {TryFrom(adoc, Len(bdocs) + 1, bnodes)} :
           /\ bnodes' = r.nodes
           /\ bdocs' = IF r.res.tag = "Ok"
                       THEN Append(bdocs, [nodes |-> r.top, held |-> TRUE, kept |-> 0])
                       ELSE bdocs
           /\ bres' = BCall("try_from", 0, r.res)
    /\ UNCHANGED <<adoc, brest>>

\* The caller drops its RBDoc d; it has kept a handle on node k of that
\* document (k = 0: on none).
BDropDoc(d, k) ==
    /\ ~ BAborted
    /\ d \in BDocIds
    /\ bdocs[d].held
    /\ k \in {0} \cup UNION {BOwned(bdocs[d].nodes[i]) : i \in 1 .. Len(bdocs[d].nodes)}
    /\ bdocs' = [bdocs EXCEPT ![d].held = FALSE, ![d].kept = k]
    /\ bres' = BCall("drop", 0, NoResult)
    /\ UNCHANGED <<adoc, bnodes, brest>>

\* n.owner_document()
BOwnerDocument(n) ==
    /\ n \in BAlive
    /\ bres' = BCall("owner_document", n, OwnerDocument(n))
    /\ UNCHANGED <<adoc, bnodes, bdocs, brest>>

\* n.parent()
BParent(n) ==
    /\ n \in BAlive
    /\ bres' = BCall("parent", n, Parent(n))
    /\ UNCHANGED <<adoc, bnodes, bdocs, brest>>

\* n.descend_iter().collect()
BDescendIter(n) ==
    /\ n \in BAlive
    /\ bres' = BCall("descend_iter", n, DescendIter(n))
    /\ UNCHANGED <<adoc, bnodes, bdocs, brest>>

\* n.next_iter().collect()
BNextIter(n) ==
    /\ n \in BAlive
    /\ bres' = BCall("next_iter", n, NextIter(n))
    /\ UNCHANGED <<adoc, bnodes, bdocs, brest>>

\* n.prev_iter().collect()
BPrevIter(n) ==
    /\ n \in BAlive
    /\ bres' = BCall("prev_iter", n, PrevIter(n))
    /\ UNCHANGED <<adoc, bnodes, bdocs, brest>>

\* n.ancestor_iter(): Ancestors{cur: n}
BAncestorIter(n) ==
    /\ n \in BAlive
    /\ bres' = [op |-> "ancestor_iter", node |-> n, ret |-> <<>>, cur |-> n,
                ended |-> FALSE]
    /\ UNCHANGED <<adoc, bnodes, bdocs, brest>>

\* next() on the iterator of the last call; the caller stops at None
BAncestorNext ==
    /\ bres.op = "ancestor_iter"
    /\ ~ bres.ended
    /\ bres' = IF AncestorsNext(bres.cur) = None
               THEN [bres EXCEPT !.ended = TRUE]
               ELSE [bres EXCEPT !.ret = Append(@, Unwrap(AncestorsNext(bres.cur))),
                                 !.cur = Unwrap(AncestorsNext(bres.cur))]
    /\ UNCHANGED <<adoc, bnodes, bdocs, brest>>

BNext ==
    \/ BTryFrom
    \/ \E d \in BDocIds, k \in {0} \cup BNodeIds : BDropDoc(d, k)
    \/ \E n \in BNodeIds : BOwnerDocument(n)
    \/ \E n \in BNodeIds : BParent(n)
    \/ \E n \in BNodeIds : BDescendIter(n)
    \/ \E n \in BNodeIds : BNextIter(n)
    \/ \E n \in BNodeIds : BPrevIter(n)
    \/ \E n \in BNodeIds : BAncestorIter(n)
    \/ BAncestorNext

SpecBTree == BInit /\ [][BNext]_vars

(***************************************************************************)
(* C3.  owner_document returns the very document the node belongs to        *)
(***************************************************************************)
\* The nodes reached from document d through child_iter, at any depth
BReachable(d) == UNION {BOwned(DocChildIter(d)[i]) : i \in 1 .. Len(DocChildIter(d))}

\* The depth of a node of the heap: 1 for a node without a parent field
RECURSIVE BDepth(_)
BDepth(n) == IF bnodes[n].parent = None THEN 1 ELSE 1 + BDepth(Unwrap(bnodes[n].parent))

\* C3: when owner_document is called on a node reachable from a document
\* that is alive, it returns Ok with that very document, whichever other
\* documents are alive; and the same holds of every such node of the heap.
C3_OwnerDocumentIdentity ==
    /\ bres.op = "owner_document" =>
          \A d \in BDocIds :
              (bdocs[d].held /\ bres.node \in BReachable(d)) => bres.ret = Ok(d)
    /\ \A d \in BDocIds :
          bdocs[d].held => \A n \in BReachable(d) : OwnerDocument(n) = Ok(d)

\* owner_document has returned the second of two live documents for a node
\* below the top level, the two documents being conversions of one ADoc.
C3_Witness ==
    /\ bres.op = "owner_document"
    /\ Len(bdocs) >= 2
    /\ bdocs[1].held /\ bdocs[2].held
    /\ BDepth(bres.node) >= 2
    /\ bres.ret = Ok(2)

(***************************************************************************)
(* C4.  parent is the inverse of the child relation                         *)
(***************************************************************************)
Range(seq) == {seq[i] : i \in 1 .. Len(seq)}

\* The nodes met from n by following the parent field at most k times
RECURSIVE BParentFieldChain(_, _)
BParentFieldChain(n, k) ==
    IF k = 0 \/ bnodes[n].parent = None
    THEN {}
    ELSE {Unwrap(bnodes[n].parent)} \cup BParentFieldChain(Unwrap(bnodes[n].parent), k - 1)

\* C4: in a document that is alive, a top-level node has no parent, every
\* other reachable node has one, parent(n) is p exactly when n is among the
\* children of p, and no node is among its own ancestors; and a call of
\* parent() has returned accordingly.
C4_ParentInverseOfChildren ==
    /\ \A d \in BDocIds :
          bdocs[d].held =>
              \A n \in BReachable(d) :
                  /\ n \in Range(DocChildIter(d)) => Parent(n) = None
                  /\ n \notin Range(DocChildIter(d)) => Parent(n) # None
                  /\ \A p \in BReachable(d) :
                        n \in Range(ChildIter(p)) <=> Parent(n) = Some(p)
                  /\ n \notin BParentFieldChain(n, Len(bnodes))
    /\ bres.op = "parent" =>
          \A d \in BDocIds :
              (bdocs[d].held /\ bres.node \in BReachable(d)) =>
                  /\ bres.ret = None <=> bres.node \in Range(DocChildIter(d))
                  /\ \A p \in BReachable(d) :
                        bres.ret = Some(p) <=> bres.node \in Range(ChildIter(p))

\* parent() has returned a node that itself has a parent, in a live document
\* with two top-level nodes.
C4_Witness ==
    /\ bres.op = "parent"
    /\ bres.ret # None
    /\ BDepth(bres.node) >= 3
    /\ \E d \in BDocIds :
          /\ bdocs[d].held
          /\ bres.node \in BReachable(d)
          /\ Len(DocChildIter(d)) >= 2

(***************************************************************************)
(* C5.  descend_iter is the pre-order walk of the proper descendants        *)
(***************************************************************************)
\* The place of n in the children vector of its parent (0 at the top level)
BIndexInParent(n) ==
    IF bnodes[n].parent = None
    THEN 0
    ELSE CHOOSE i \in 1 .. Len(bnodes[Unwrap(bnodes[n].parent)].children) :
             bnodes[Unwrap(bnodes[n].parent)].children[i] = n

\* The path of child positions leading from the top-level ancestor of n to n
RECURSIVE BPath(_)
BPath(n) ==
    IF bnodes[n].parent = None
    THEN <<>>
    ELSE Append(BPath(Unwrap(bnodes[n].parent)), BIndexInParent(n))

\* p comes before q in pre-order: p is a proper prefix of q, or they differ
\* first at a place where p is smaller
RECURSIVE PathBefore(_, _)
PathBefore(p, q) ==
    IF p = <<>> THEN q # <<>>
    ELSE IF q = <<>> THEN FALSE
    ELSE IF Head(p) # Head(q) THEN Head(p) < Head(q)
    ELSE PathBefore(Tail(p), Tail(q))

IsPreOrderOfDescendants(n, seq) ==
    /\ Range(seq) = BOwned(n) \ {n}
    /\ Len(seq) = Cardinality(BOwned(n) \ {n})
    /\ \A i, j \in 1 .. Len(seq) : i < j => PathBefore(BPath(seq[i]), BPath(seq[j]))

\* C5: descend_iter(n) yields the proper descendants of n, each once, a node
\* before its children and children left to right, and nothing else; this
\* holds of the call made and of every node that is alive.
C5_DescendPreOrder ==
    /\ bres.op = "descend_iter" => IsPreOrderOfDescendants(bres.node, bres.ret)
    /\ \A n \in BAlive : IsPreOrderOfDescendants(n, DescendIter(n))

\* descend_iter has yielded a node, then its child, then its following sibling.
C5_Witness ==
    /\ bres.op = "descend_iter"
    /\ Len(bres.ret) >= 3
    /\ bnodes[bres.ret[2]].parent = Some(bres.ret[1])
    /\ bnodes[bres.ret[3]].parent = Some(bres.node)
    /\ bnodes[bres.ret[1]].parent = Some(bres.node)

(***************************************************************************)
(* C7.  ancestor_iter walks the parent chain, nearest first, and ends       *)
(***************************************************************************)
\* The live nodes that have n among their children: none or one
BLiveParents(n) == {p \in BAlive : n \in Range(ChildIter(p))}

\* The chain of live parents of n, nearest first
RECURSIVE BLiveAncestors(_)
BLiveAncestors(n) ==
    IF BLiveParents(n) = {}
    THEN <<>>
    ELSE <<CHOOSE p \in BLiveParents(n) : TRUE>>
             \o BLiveAncestors(CHOOSE p \in BLiveParents(n) : TRUE)

IsPrefix(a, b) == Len(a) <= Len(b) /\ a = SubSeq(b, 1, Len(a))

AncestorWalkRight ==
    bres.op = "ancestor_iter" =>
        /\ IsPrefix(bres.ret, BLiveAncestors(bres.node))
        /\ bres.node \notin Range(bres.ret)
        /\ Cardinality(Range(bres.ret)) = Len(bres.ret)
        /\ Len(bres.ret) < Cardinality(BAlive)
        /\ bres.cur = (IF bres.ret = <<>> THEN bres.node ELSE bres.ret[Len(bres.ret)])
        /\ bres.ended =>
              /\ bres.ret = BLiveAncestors(bres.node)
              /\ BLiveParents(bres.cur) = {}
        /\ Parent(bres.node) =
              (IF BLiveAncestors(bres.node) = <<>>
               THEN None ELSE Some(BLiveAncestors(bres.node)[1]))

\* The walk goes on while it has not ended
BAncestorWalking == bres.op = "ancestor_iter" /\ ~ bres.ended

\* The conversion and navigation, with a caller that goes on calling next()
\* on an ancestor iterator it holds
SpecBTreeFair == SpecBTree /\ WF_vars(BAncestorNext)

\* C7: at every point of the walk, what ancestor_iter(n) has yielded is the
\* chain of parents of n, nearest first, without n and without repetition,
\* so in fewer steps than there are nodes; when next() returns None the whole
\* chain has been yielded and the last node has no parent that is alive;
\* parent(n) is the first of the chain or absent; and a walk that is
\* continued comes to its end.
C7_AncestorWalk ==
    /\ []AncestorWalkRight
    /\ (<>[][BAncestorNext]_vars => <>[](~ BAncestorWalking))

\* A walk has yielded two ancestors and ended at a node whose parent was
\* freed when the document was dropped.
C7_Witness ==
    /\ bres.op = "ancestor_iter"
    /\ bres.ended
    /\ Len(bres.ret) >= 2
    /\ bnodes[bres.cur].parent # None

(***************************************************************************)
(* C6.  The sibling iterators                                              *)
(***************************************************************************)
Reverse(seq) == [i \in 1 .. Len(seq) |-> seq[Len(seq) + 1 - i]]

\* The children vector n sits in, for a node that has a parent
BSiblingVector(n) == bnodes[Unwrap(bnodes[n].parent)].children

BPlaceIn(seq, n) == CHOOSE i \in 1 .. Len(seq) : seq[i] = n

BFollowingSiblings(n) ==
    SubSeq(BSiblingVector(n), BPlaceIn(BSiblingVector(n), n) + 1, Len(BSiblingVector(n)))
BPrecedingSiblings(n) ==
    Reverse(SubSeq(BSiblingVector(n), 1, BPlaceIn(BSiblingVector(n), n) - 1))

\* C6: in a document that is alive, for a node n below the top level,
\* next_iter(n) yields the following siblings of n in document order and
\* prev_iter(n) the preceding siblings in reverse document order, n itself
\* never and no node twice.
C6_SiblingIterators ==
    \A d \in BDocIds :
        (/\ bdocs[d].held
         /\ bres.op \in {"next_iter", "prev_iter"}
         /\ bres.node \in BReachable(d)
         /\ bnodes[bres.node].parent # None) =>
            /\ bres.op = "next_iter" => bres.ret = BFollowingSiblings(bres.node)
            /\ bres.op = "prev_iter" => bres.ret = BPrecedingSiblings(bres.node)
            /\ bres.op \in {"next_iter", "prev_iter"} =>
                  /\ bres.node \notin Range(bres.ret)
                  /\ Cardinality(Range(bres.ret)) = Len(bres.ret)

(***************************************************************************)
(* C8, C9, C10.  Entities and failures of the conversion                    *)
(***************************************************************************)
\* The declarations of a prologue, in order
RECURSIVE ADecls(_)
ADecls(prologue) ==
    IF prologue = <<>> THEN <<>>
    ELSE (IF Head(prologue).node_type = "Unknown" /\ Head(prologue).dtd # None
          THEN <<Unwrap(Head(prologue).dtd)>> ELSE <<>>) \o ADecls(Tail(prologue))

\* The names the nodes of a forest refer to
RECURSIVE ARefNames(_)
ARefNames(f) ==
    IF f = <<>> THEN {}
    ELSE (IF Head(f).reference # None THEN {Unwrap(Head(f).reference)} ELSE {})
             \cup ARefNames(Head(f).children) \cup ARefNames(Tail(f))

\* Some node of the forest is a processing instruction without a target
RECURSIVE AHasPiNoTarget(_)
AHasPiNoTarget(f) ==
    IF f = <<>> THEN FALSE
    ELSE \/ Head(f).node_type = "ProcessingInstruction" /\ Head(f).pi_name = None
         \/ AHasPiNoTarget(ANodeChildIter(Head(f)))
         \/ AHasPiNoTarget(Tail(f))

\* A prologue node of type Unknown carries no declaration
AHasBareUnknown(a) ==
    \E i \in 1 .. Len(a.prologue) :
        a.prologue[i].node_type = "Unknown" /\ a.prologue[i].dtd = None

ABadDecl(d) == ~ PContent(d.raw).ok \/ PContent(d.raw).rest # <<>>
AHasBadDecl(a) == \E i \in 1 .. Len(ADecls(a.prologue)) : ABadDecl(ADecls(a.prologue)[i])
AHasRedefinition(a) ==
    \E i, j \in 1 .. Len(ADecls(a.prologue)) :
        i < j /\ SameExpandedName(ADecls(a.prologue)[i].name, ADecls(a.prologue)[j].name)
ADeclared(a, q) ==
    \E i \in 1 .. Len(ADecls(a.prologue)) : SameExpandedName(ADecls(a.prologue)[i].name, q)
ADeclOf(a, q) ==
    ADecls(a.prologue)[CHOOSE i \in 1 .. Len(ADecls(a.prologue)) :
                          SameExpandedName(ADecls(a.prologue)[i].name, q)]

\* The shape of a tree: type, name, value and the shapes of the children
Shape(t, name, value, kids) ==
    [node_type |-> t, name |-> name, value |-> value, children |-> kids]

\* The shape of the content the parser gives
RECURSIVE XShapes(_)
XShapes(xs) ==
    IF xs = <<>> THEN <<>>
    ELSE <<CASE Head(xs).kind = "Element" ->
                  Shape("Element", Head(xs).name, None, XShapes(Head(xs).content))
             [] Head(xs).kind = "PI" ->
                  Shape("ProcessingInstruction",
                        Some(QualifiedName(None, None, Unwrap(Head(xs).target))),
                        Head(xs).value, <<>>)
             [] OTHER -> Shape(Head(xs).kind, Head(xs).name, Head(xs).value, <<>>)>>
         \o XShapes(Tail(xs))

\* The shape the B-tree of a forest is to have, every reference replaced by
\* the content of the entity it names
RECURSIVE AExpandedShapes(_, _)
AExpandedShapes(a, f) ==
    IF f = <<>> THEN <<>>
    ELSE (IF Head(f).reference # None
          THEN XShapes(PContent(ADeclOf(a, Unwrap(Head(f).reference)).raw).out)
          ELSE <<Shape(Head(f).node_type,
                       IF Head(f).node_type \in {"Element", "Attribute"}
                       THEN Some(ANodeName(Head(f)))
                       ELSE IF Head(f).node_type = "ProcessingInstruction"
                       THEN Some(QualifiedName(None, None, Unwrap(Head(f).pi_name)))
                       ELSE None,
                       IF Head(f).node_type \in {"Element", "Unknown"}
                       THEN None ELSE Some(ANodeValue(Head(f))),
                       AExpandedShapes(a, ANodeChildIter(Head(f))))>>)
         \o AExpandedShapes(a, Tail(f))

\* The shape of the B-trees whose roots are ns
RECURSIVE BShapes(_)
BShapes(ns) ==
    IF ns = <<>> THEN <<>>
    ELSE <<Shape(bnodes[Head(ns)].node_type, bnodes[Head(ns)].name,
                 bnodes[Head(ns)].value, BShapes(bnodes[Head(ns)].children))>>
         \o BShapes(Tail(ns))

\* The last call was a conversion of a document whose content refers to
\* entities and which has nothing else to make the conversion fail
BConvertedWithReferences ==
    /\ bres.op = "try_from"
    /\ ARefNames(adoc.content) # {}
    /\ ~ AHasBareUnknown(adoc) /\ ~ AHasBadDecl(adoc) /\ ~ AHasRedefinition(adoc)
    /\ ~ AHasPiNoTarget(adoc.prologue \o adoc.content \o adoc.epilogue)

\* C8: the conversion of a tree with references succeeds exactly when every
\* name referred to is declared in the prologue, and then the content of the
\* B-document has the shape of the A-content with every reference replaced
\* by the parsed content of its entity.
C8_ReferencesExpanded ==
    BConvertedWithReferences =>
        /\ bres.ret.tag = "Ok" <=> \A q \in ARefNames(adoc.content) : ADeclared(adoc, q)
        /\ bres.ret.tag = "Ok" =>
              LET top == bdocs[bres.ret.val].nodes
              IN  BShapes(SubSeq(top, Len(adoc.prologue) + 1,
                                 Len(top) - Len(adoc.epilogue)))
                      = AExpandedShapes(adoc, adoc.content)

\* C9: the conversion returns an error when a declaration of the prologue
\* has a raw text that does not parse as content or leaves input, and when
\* two declarations have equal names; without such declarations the
\* collection of entities does not fail.
C9_EntityErrors ==
    bres.op = "try_from" =>
        /\ (AHasBadDecl(adoc) \/ AHasRedefinition(adoc)) => bres.ret.tag = "Err"
        /\ ~ (AHasBadDecl(adoc) \/ AHasRedefinition(adoc)) =>
              CollectEntities(adoc.prologue, {}).tag = "Ok"

\* C10: try_from returns a document or an Error, for every ADoc.
C10_TryFromNeverAborts ==
    bres.op = "try_from" => bres.ret.tag \in {"Ok", "Err"}

(***************************************************************************)
(* Value and Operator (crate::value, not among the sources): the typed      *)
(* scalars an Item can hold.  Three of the types are modelled.              *)
(***************************************************************************)
ValueString(str) == [vtype |-> "String", s |-> str, i |-> 0, b |-> FALSE]
ValueInteger(i) == [vtype |-> "Integer", s |-> <<>>, i |-> i, b |-> FALSE]
ValueBoolean(b) == [vtype |-> "Boolean", s |-> <<>>, i |-> 0, b |-> b]

DigitChars == <<"0", "1", "2", "3", "4", "5", "6", "7", "8", "9">>
DigitOf(c) == CHOOSE d \in 0 .. 9 : DigitChars[d + 1] = c

RECURSIVE NatToString(_)
NatToString(n) ==
    IF n < 10 THEN <<DigitChars[n + 1]>>
    ELSE NatToString(n \div 10) \o <<DigitChars[(n % 10) + 1]>>
IntToString(i) == IF i < 0 THEN <<"-">> \o NatToString(0 - i) ELSE NatToString(i)

RECURSIVE DigitsToNat(_, _)
DigitsToNat(str, acc) ==
    IF str = <<>> THEN acc ELSE DigitsToNat(Tail(str), 10 * acc + DigitOf(Head(str)))
IsDigits(str) == str # <<>> /\ \A i \in 1 .. Len(str) : str[i] \in Digits

\* Value::to_string: total
ValueToString(val) ==
    CASE val.vtype = "String" -> val.s
      [] val.vtype = "Integer" -> IntToString(val.i)
      [] OTHER -> IF val.b THEN <<"t", "r", "u", "e">> ELSE <<"f", "a", "l", "s", "e">>

\* Value::to_bool: the effective boolean value of a scalar
ValueToBool(val) ==
    CASE val.vtype = "String" -> val.s # <<>>
      [] val.vtype = "Integer" -> val.i # 0
      [] OTHER -> val.b

\* Value::to_int: fails when the value is not numeric
ValueNotAnInteger == Err("TypeError", <<"type error: value is not an integer">>)
ValueToInt(val) ==
    CASE val.vtype = "Integer" -> Ok(val.i)
      [] val.vtype = "String" ->
            IF IsDigits(val.s) THEN Ok(DigitsToNat(val.s, 0))
            ELSE IF val.s # <<>> /\ Head(val.s) = "-" /\ IsDigits(Tail(val.s))
            THEN Ok(0 - DigitsToNat(Tail(val.s), 0))
            ELSE ValueNotAnInteger
      [] OTHER -> ValueNotAnInteger

\* The order of characters, for the comparison of strings
CharOrder == DigitChars \o <<"a", "b", "c">>
CharRank(c) == CHOOSE i \in 1 .. Len(CharOrder) : CharOrder[i] = c
RECURSIVE StringLess(_, _)
StringLess(a, b) ==
    IF b = <<>> THEN FALSE
    ELSE IF a = <<>> THEN TRUE
    ELSE IF Head(a) # Head(b) THEN CharRank(Head(a)) < CharRank(Head(b))
    ELSE StringLess(Tail(a), Tail(b))

Operators == {"Equal", "LessThan", "GreaterThan"}

\* Value::compare(self, other, op): integers compare as numbers, every other
\* pair as strings
ValueCompare(a, b, op) ==
    IF a.vtype = "Integer" /\ b.vtype = "Integer"
    THEN Ok(CASE op = "Equal" -> a.i = b.i
              [] op = "LessThan" -> a.i < b.i
              [] OTHER -> a.i > b.i)
    ELSE Ok(CASE op = "Equal" -> ValueToString(a) = ValueToString(b)
              [] op = "LessThan" -> StringLess(ValueToString(a), ValueToString(b))
              [] OTHER -> StringLess(ValueToString(b), ValueToString(a)))

(***************************************************************************)
(* Item and Sequence (src/src/item.rs).  A Document or a Node is any         *)
(* implementation of the trait: it is modelled by what its four             *)
(* serialisations return.                                                   *)
(***************************************************************************)
TraitObject(str, xml, xmlopt, json) ==
    [str |-> str, xml |-> xml, xmlopt |-> xmlopt, json |-> json]
NoObject == TraitObject(<<>>, <<>>, <<>>, <<>>)
NoValue == ValueString(<<>>)

ItemDocument(d) == [kind |-> "Document", d |-> d, v |-> NoValue]
ItemNode(n) == [kind |-> "Node", d |-> n, v |-> NoValue]
ItemFunction == [kind |-> "Function", d |-> NoObject, v |-> NoValue]
ItemValue(val) == [kind |-> "Value", d |-> NoObject, v |-> val]

\* Item::to_string
ItemToString(i) ==
    CASE i.kind \in {"Document", "Node"} -> i.d.str
      [] i.kind = "Function" -> EmptyString
      [] OTHER -> ValueToString(i.v)

\* Item::to_xml
ItemToXml(i) ==
    CASE i.kind \in {"Document", "Node"} -> i.d.xml
      [] i.kind = "Function" -> EmptyString
      [] OTHER -> ValueToString(i.v)

\* Item::to_xml_with_options
ItemToXmlWithOptions(i) ==
    CASE i.kind \in {"Document", "Node"} -> i.d.xmlopt
      [] i.kind = "Function" -> EmptyString
      [] OTHER -> ValueToString(i.v)

\* Item::to_json
ItemToJson(i) ==
    CASE i.kind \in {"Document", "Node"} -> i.d.json
      [] i.kind = "Function" -> EmptyString
      [] OTHER -> ValueToString(i.v)

\* Item::to_bool
ItemToBool(i) ==
    CASE i.kind \in {"Document", "Node"} -> TRUE
      [] i.kind = "Function" -> FALSE
      [] OTHER -> ValueToBool(i.v)

\* Item::to_int
ItemToInt(i) ==
    CASE i.kind \in {"Document", "Node"} ->
            Err("TypeError", <<"type error: item is a node">>)
      [] i.kind = "Function" ->
            Err("TypeError", <<"type error: item is a function">>)
      [] OTHER -> ValueToInt(i.v)

\* Item::compare(self, other, op)
RECURSIVE ItemCompare(_, _, _)
ItemCompare(self, other, op) ==
    CASE self.kind = "Value" ->
            (CASE other.kind = "Value" -> ValueCompare(self.v, other.v, op)
               [] other.kind = "Node" ->
                     ValueCompare(self.v, ValueString(ItemToString(other)), op)
               [] OTHER -> Err("TypeError", <<"type error">>))
      [] self.kind \in {"Document", "Node"} ->
            ItemCompare(other, ItemValue(ValueString(ItemToString(self))), op)
      [] OTHER -> Err("TypeError", <<"type error">>)

\* The loops of to_string, to_xml, to_xml_with_options, to_json of Sequence:
\* r.push_str for every item in turn
RECURSIVE SeqToString(_), SeqToXml(_), SeqToXmlWithOptions(_), SeqToJson(_)
SeqToString(seq) ==
    IF seq = <<>> THEN EmptyString
    ELSE SeqToString(SubSeq(seq, 1, Len(seq) - 1)) \o ItemToString(seq[Len(seq)])
SeqToXml(seq) ==
    IF seq = <<>> THEN EmptyString
    ELSE SeqToXml(SubSeq(seq, 1, Len(seq) - 1)) \o ItemToXml(seq[Len(seq)])
SeqToXmlWithOptions(seq) ==
    IF seq = <<>> THEN EmptyString
    ELSE SeqToXmlWithOptions(SubSeq(seq, 1, Len(seq) - 1))
             \o ItemToXmlWithOptions(seq[Len(seq)])
SeqToJson(seq) ==
    IF seq = <<>> THEN EmptyString
    ELSE SeqToJson(SubSeq(seq, 1, Len(seq) - 1)) \o ItemToJson(seq[Len(seq)])

\* A mutant of Sequence::to_bool: the first item decides, whatever the length.
SeqToBoolOfFirst(seq) == IF Len(seq) = 0 THEN FALSE ELSE ItemToBool(seq[1])

\* Sequence::to_bool
SeqToBool(seq) ==
    IF Len(seq) = 0
    THEN FALSE
    ELSE IF seq[1].kind = "Node"
    THEN TRUE
    ELSE IF Len(seq) = 1 THEN ItemToBool(seq[1]) ELSE FALSE

\* A mutant of Sequence::to_int: the first item is converted, whatever the
\* length.
SeqToIntOfFirst(seq) ==
    IF Len(seq) >= 1
    THEN ItemToInt(seq[1])
    ELSE Err("TypeError", <<"type error: sequence is not a singleton">>)

\* Sequence::to_int
SeqToInt(seq) ==
    IF Len(seq) = 1
    THEN ItemToInt(seq[1])
    ELSE Err("TypeError", <<"type error: sequence is not a singleton">>)

\* A mutant of the push operations: the new item goes in front.
VecPushFront(seq, i) == <<i>> \o seq

\* Vec::push
VecPush(seq, i) == Append(seq, i)

(***************************************************************************)
(* The Sequence under test: items are pushed on it and its conversions and  *)
(* the comparison of two of its items are called.                           *)
(***************************************************************************)
SNodes ==
    { TraitObject(<<"a">>, <<"<", "e", ">", "a", "<", "/", "e", ">">>,
                  <<"<", "e", ">", " ", "a", "<", "/", "e", ">">>, <<"{", "a", "}">>),
      TraitObject(<<"b">>, <<"<", "f", "/", ">", "b">>, <<"<", "f", "/", ">", " ", "b">>,
                  <<"[", "b", "]">>) }
SDocuments ==
    { TraitObject(<<"c">>, <<"<", "d", ">", "c", "<", "/", "d", ">">>,
                  <<"<", "d", ">", " ", "c", "<", "/", "d", ">">>, <<"{", "c", "}">>) }
SValues == {ValueString(<<"b">>), ValueInteger(0)}
SItems ==
    {ItemNode(n) : n \in SNodes} \cup {ItemDocument(d) : d \in SDocuments}
        \cup {ItemFunction} \cup {ItemValue(val) : val \in SValues}

SCall(op, args, ret) == [op |-> op, args |-> args, ret |-> ret]

SInit == QIdle /\ AIdle /\ BIdle /\ SIdle /\ TIdle /\ NIdle /\ PIdle

\* Sequence::push_document
SPushDocument ==
    \E d \in SDocuments :
        /\ Len(sseq) < MaxSeqLen
        /\ sseq' = VecPush(sseq, ItemDocument(d))
        /\ sres' = SCall("push_document", <<ItemDocument(d)>>, Unit)
        /\ UNCHANGED srest

\* Sequence::push_node
SPushNode ==
    \E n \in SNodes :
        /\ Len(sseq) < MaxSeqLen
        /\ sseq' = VecPush(sseq, ItemNode(n))
        /\ sres' = SCall("push_node", <<ItemNode(n)>>, Unit)
        /\ UNCHANGED srest

\* Sequence::push_value
SPushValue ==
    \E val \in SValues :
        /\ Len(sseq) < MaxSeqLen
        /\ sseq' = VecPush(sseq, ItemValue(val))
        /\ sres' = SCall("push_value", <<ItemValue(val)>>, Unit)
        /\ UNCHANGED srest

\* Sequence::push_item: the item is shared with its owner (Rc::clone)
SPushItem ==
    \E i \in SItems :
        /\ Len(sseq) < MaxSeqLen
        /\ sseq' = VecPush(sseq, i)
        /\ sres' = SCall("push_item", <<i>>, Unit)
        /\ UNCHANGED srest

SToBool ==
    /\ sres' = SCall("to_bool", <<>>, SeqToBool(sseq))
    /\ UNCHANGED <<sseq, srest>>

SToInt ==
    /\ sres' = SCall("to_int", <<>>, SeqToInt(sseq))
    /\ UNCHANGED <<sseq, srest>>

SToString ==
    /\ sres' = SCall("to_string", <<>>, SeqToString(sseq))
    /\ UNCHANGED <<sseq, srest>>

SToXml ==
    /\ sres' = SCall("to_xml", <<>>, SeqToXml(sseq))
    /\ UNCHANGED <<sseq, srest>>

SToXmlWithOptions ==
    /\ sres' = SCall("to_xml_with_options", <<>>, SeqToXmlWithOptions(sseq))
    /\ UNCHANGED <<sseq, srest>>

SToJson ==
    /\ sres' = SCall("to_json", <<>>, SeqToJson(sseq))
    /\ UNCHANGED <<sseq, srest>>

\* Item::compare of one item of the sequence with another
SCompare ==
    \E i \in 1 .. Len(sseq), j \in 1 .. Len(sseq), op \in Operators :
        /\ sres' = SCall("compare", <<i, j, op>>, ItemCompare(sseq[i], sseq[j], op))
        /\ UNCHANGED <<sseq, srest>>

SNext ==
    \/ SPushDocument
    \/ SPushNode
    \/ SPushValue
    \/ SPushItem
    \/ SToBool
    \/ SToInt
    \/ SToString
    \/ SToXml
    \/ SToXmlWithOptions
    \/ SToJson
    \/ SCompare

SpecSeq == SInit /\ [][SNext]_vars

ComparedValue(i) == IF i.kind = "Value" THEN i.v ELSE ValueString(ItemToString(i))

\* C12: a.compare(b, op) on items that are values or nodes, in each of the
\* four pairings, is the comparison of the value of a on the left with the
\* value of b on the right.
C12_CompareKeepsOrder ==
    (/\ sres.op = "compare"
     /\ sseq[sres.args[1]].kind \in {"Value", "Node"}
     /\ sseq[sres.args[2]].kind \in {"Value", "Node"})
        => sres.ret = ValueCompare(ComparedValue(sseq[sres.args[1]]),
                                   ComparedValue(sseq[sres.args[2]]), sres.args[3])

IsTypeError(r) == r.tag = "Err" /\ r.kind = "TypeError"

\* C13: Sequence::to_int is a TypeError unless the sequence has exactly one
\* item; for that item it is a TypeError when the item is a document, a node
\* or a function, and otherwise whatever the value's own integer conversion
\* returns, its error included, unchanged.
C13_ToInt ==
    sres.op = "to_int" =>
        /\ Len(sseq) # 1 => IsTypeError(sres.ret)
        /\ (Len(sseq) = 1 /\ sseq[1].kind \in {"Document", "Node", "Function"})
               => IsTypeError(sres.ret)
        /\ (Len(sseq) = 1 /\ sseq[1].kind = "Value") => sres.ret = ValueToInt(sseq[1].v)

\* C13 case: to_int on a singleton whose value fails its own conversion
\* returned that very error.
C13_Witness ==
    /\ sres.op = "to_int"
    /\ Len(sseq) = 1
    /\ sseq[1].kind = "Value"
    /\ ValueToInt(sseq[1].v).tag = "Err"
    /\ sres.ret = ValueToInt(sseq[1].v)

PushOps == {"push_document", "push_node", "push_value", "push_item"}

\* The kind of item each push operation wraps its argument in.
PushedKinds(op) ==
    CASE op = "push_document" -> {"Document"}
      [] op = "push_node" -> {"Node"}
      [] op = "push_value" -> {"Value"}
      [] OTHER -> {"Document", "Node", "Function", "Value"}

SerialisedAsConcatenation ==
    /\ sres.op = "to_string" =>
          sres.ret = Concat([i \in 1 .. Len(sseq) |-> ItemToString(sseq[i])])
    /\ sres.op = "to_xml" =>
          sres.ret = Concat([i \in 1 .. Len(sseq) |-> ItemToXml(sseq[i])])
    /\ sres.op = "to_xml_with_options" =>
          sres.ret = Concat([i \in 1 .. Len(sseq) |-> ItemToXmlWithOptions(sseq[i])])
    /\ sres.op = "to_json" =>
          sres.ret = Concat([i \in 1 .. Len(sseq) |-> ItemToJson(sseq[i])])
    /\ (sres.op \in {"to_xml", "to_json"}
            /\ \A i \in 1 .. Len(sseq) : sseq[i].kind = "Value")
          => sres.ret = Concat([i \in 1 .. Len(sseq) |-> ValueToString(sseq[i].v)])

PushAppends ==
    sseq' # sseq =>
        /\ sres'.op \in PushOps
        /\ sres'.args[1].kind \in PushedKinds(sres'.op)
        /\ sseq' = sseq \o <<sres'.args[1]>>

\* C14: every push operation appends its item after the items already there,
\* and nothing else changes the sequence; to_string, to_xml,
\* to_xml_with_options and to_json are the concatenation, in order, of the
\* same serialisation of each item; for value items the XML and JSON
\* serialisations are the string form.
C14_PushAndSerialise == [][PushAppends]_vars /\ []SerialisedAsConcatenation

\* C14 case: three items of different kinds, a value among them and the value
\* not last, were pushed and the sequence serialised as XML.
C14_Witness ==
    /\ sres.op = "to_xml"
    /\ Len(sseq) = 3
    /\ sseq[1].kind = "Node"
    /\ sseq[2].kind = "Value"
    /\ sseq[3].kind = "Document"
    /\ sres.ret = sseq[1].d.xml \o ValueToString(sseq[2].v) \o sseq[3].d.xml

(***************************************************************************)
(* HashMap<String, String>: a set of <<key, value>> pairs with one pair per *)
(* key.                                                                     *)
(***************************************************************************)
HashMapGet(h, k) ==
    IF \E e \in h : e[1] = k THEN Some((CHOOSE e \in h : e[1] = k)[2]) ELSE None
HashMapInsert(h, k, v) == {e \in h : e[1] # k} \cup {<<k, v>>}

(***************************************************************************)
(* QualifiedName from a literal and a list of namespace maps                *)
(* (src/src/qname.rs).  The eqname parser is not among the sources: it      *)
(* accepts Q{uri}local, prefix:local and local.                             *)
(***************************************************************************)
PEqname(s) ==
    IF Len(s) >= 2 /\ Take(s, 2) = <<"Q", "{">>
    THEN IF FindSub(Drop(s, 2), <<"}">>) < 0
         THEN PErr
         ELSE IF PNcname(Drop(s, FindSub(Drop(s, 2), <<"}">>) + 3)).ok
         THEN POk(PNcname(Drop(s, FindSub(Drop(s, 2), <<"}">>) + 3)).rest,
                  QualifiedName(Some(SubSeq(s, 3, FindSub(Drop(s, 2), <<"}">>) + 2)), None,
                                PNcname(Drop(s, FindSub(Drop(s, 2), <<"}">>) + 3)).out))
         ELSE PErr
    ELSE PQualname(s)

\* A mutant of the search: the last map of the list that binds the prefix wins.
RECURSIVE FirstBindingFromBack(_, _)
FirstBindingFromBack(maps, prefix) ==
    IF maps = <<>> THEN None
    ELSE IF IsSome(HashMapGet(maps[Len(maps)], prefix))
    THEN HashMapGet(maps[Len(maps)], prefix)
    ELSE FirstBindingFromBack(SubSeq(maps, 1, Len(maps) - 1), prefix)

\* s.1.iter().try_for_each(..): Break with the binding of the first map that
\* has the prefix, Continue past the maps that do not
RECURSIVE FirstBinding(_, _)
FirstBinding(maps, prefix) ==
    IF maps = <<>> THEN None
    ELSE IF IsSome(HashMapGet(Head(maps), prefix))
    THEN HashMapGet(Head(maps), prefix)
    ELSE FirstBinding(Tail(maps), prefix)

\* the part of try_from after a successful parse
QResolve(qn, maps) ==
    IF IsSome(qn.prefix) /\ ~ IsSome(qn.nsuri)
    THEN IF IsSome(FirstBinding(maps, Unwrap(qn.prefix)))
         THEN Ok(QualifiedName(Some(Unwrap(FirstBinding(maps, Unwrap(qn.prefix)))),
                               Some(Unwrap(qn.prefix)), qn.localname))
         ELSE Err("Unknown", <<"unable to match prefix">> \o Unwrap(qn.prefix))
    ELSE Ok(qn)

\* impl TryFrom<(&str, &Vec<HashMap<String, String>>)> for QualifiedName
QTryFromResolving(s, maps) ==
    IF PEqname(s).ok
    THEN QResolve(PEqname(s).out, maps)
    ELSE Err("ParseError", <<"unable to parse qualified name">>)

\* The inputs of the resolution: maps over two prefixes and two URIs, and
\* literals of every form, one with a prefix no map can bind and one that is
\* not a name.
NPrefixes == {<<"x">>, <<"y">>}
NUris == {<<"u">>, <<"w">>}
NMaps ==
    {h \in SUBSET (NPrefixes \X NUris) : \A e1 \in h, e2 \in h : e1[1] = e2[1] => e1 = e2}
NLiterals ==
    { <<"v">>, <<"x", ":", "v">>, <<"y", ":", "v">>, <<"z", ":", "v">>,
      <<"Q", "{", "u", "}", "v">>, <<":", "v">> }

NInit ==
    /\ QIdle /\ AIdle /\ BIdle /\ SIdle /\ TIdle /\ PIdle
    /\ nmaps = <<>>
    /\ nres = SNoCall

\* The caller puts one more map at the end of its list.
NAddMap ==
    \E h \in NMaps :
        /\ Len(nmaps) < MaxMaps
        /\ nmaps' = Append(nmaps, h)
        /\ nres' = SCall("push", <<h>>, Unit)
        /\ UNCHANGED nrest

\* QualifiedName::try_from((s, &nmaps))
NTryFrom ==
    \E s \in NLiterals :
        /\ nres' = SCall("try_from", <<s>>, QTryFromResolving(s, nmaps))
        /\ UNCHANGED <<nmaps, nrest>>

NNext == NAddMap \/ NTryFrom

SpecResolve == NInit /\ [][NNext]_vars

\* The literal of the last resolution, read by hand: its prefix (absent when
\* there is no colon or the literal is Q{uri}local) and its local name.
NHasPrefix == Len(nres.args[1]) = 3 /\ nres.args[1][2] = ":" /\ nres.args[1][1] # ":"
NLiteralPrefix == nres.args[1][1]
NBinders == {i \in 1 .. Len(nmaps) : \E e \in nmaps[i] : e[1] = <<NLiteralPrefix>>}
NFirstBinder == CHOOSE i \in NBinders : \A j \in NBinders : i <= j

\* C15: a prefixed name resolved against an ordered list of namespace maps
\* gets the URI of the lowest-index map that binds the prefix, whatever later
\* maps bind it to, and keeps its prefix and local name; a name without a
\* prefix, or one that already carries a URI, comes back as parsed, whatever
\* the maps; a prefix that no map binds is an error.
C15_PrefixResolution ==
    (nres.op = "try_from" /\ nres.args[1] # <<":", "v">>) =>
        /\ (NHasPrefix /\ NBinders # {}) =>
              /\ nres.ret.tag = "Ok"
              /\ <<<<NLiteralPrefix>>, Unwrap(nres.ret.val.nsuri)>> \in nmaps[NFirstBinder]
              /\ nres.ret.val.prefix = Some(<<NLiteralPrefix>>)
              /\ nres.ret.val.localname = <<nres.args[1][3]>>
        /\ (NHasPrefix /\ NBinders = {}) => nres.ret.tag = "Err"
        /\ nres.args[1] = <<"v">> =>
              nres.ret = Ok(QualifiedName(None, None, <<"v">>))
        /\ nres.args[1] = <<"Q", "{", "u", "}", "v">> =>
              nres.ret = Ok(QualifiedName(Some(<<"u">>), None, <<"v">>))

\* C15 case: two maps bind the prefix of the literal to different URIs and the
\* name came back with the URI of the first.
C15_Witness ==
    /\ nres.op = "try_from"
    /\ NHasPrefix
    /\ Len(nmaps) = 2
    /\ NBinders = {1, 2}
    /\ HashMapGet(nmaps[1], <<NLiteralPrefix>>) # HashMapGet(nmaps[2], <<NLiteralPrefix>>)
    /\ nres.ret.tag = "Ok"
    /\ Some(Unwrap(nres.ret.val.nsuri)) = HashMapGet(nmaps[1], <<NLiteralPrefix>>)

(***************************************************************************)
(* The parser combinators (crate::parser::combinators, not among the        *)
(* sources): a parser takes the input and gives Ok with the rest of the     *)
(* input and an output, or an error; NoMatch lets an alternative be tried.  *)
(* The parser state goes through them untouched and is left out here.       *)
(***************************************************************************)
ParseOk(rest, out) == [ok |-> TRUE, err |-> "", rest |-> rest, out |-> out]
ParseErr(kind) == [ok |-> FALSE, err |-> kind, rest |-> <<>>, out |-> <<>>]

\* tag(lit)
tag(lit, s) ==
    IF Len(s) >= Len(lit) /\ Take(s, Len(lit)) = lit
    THEN ParseOk(Drop(s, Len(lit)), lit)
    ELSE ParseErr("NoMatch")

\* take_while(|c| c is none of stop): the longest such prefix, empty included
take_while(stop, s) ==
    ParseOk(Drop(s, PrefixNotIn(s, stop)), Take(s, PrefixNotIn(s, stop)))

\* alt2, alt3: the first alternative decides unless it is a NoMatch
alt2(r1, r2) == IF r1.ok \/ r1.err # "NoMatch" THEN r1 ELSE r2

\* wellformed(p, |c| !c.contains('<')) applied to the result r of p
wellformed(r) ==
    IF r.ok /\ \E i \in 1 .. Len(r.out) : r.out[i] = "<"
    THEN ParseErr("NotWellFormed")
    ELSE r

\* The characters the character references of the inputs denote; NEL stands
\* for U+0085.
HexChars == DigitChars \o <<"a", "b", "c", "d", "e", "f">>
RECURSIVE RadixToNat(_, _, _)
RadixToNat(str, base, acc) ==
    IF str = <<>> THEN acc
    ELSE RadixToNat(Tail(str), base,
                    base * acc + (CHOOSE d \in 0 .. 15 : HexChars[d + 1] = Head(str)))
CodePointChar(n) ==
    CASE n = 9 -> "\t" [] n = 10 -> "\n" [] n = 13 -> "\r" [] n = 60 -> "<"
      [] n = 133 -> "NEL" [] OTHER -> "a"

\* chardata_unicode_codepoint (parser::xml::chardata, not among the sources):
\* &#x hex ; or &# decimal ; gives the one character of that code
CharRefOf(s, base, skip, digits) ==
    IF PrefixIn(Drop(s, skip), digits) >= 1
         /\ Len(s) > skip + PrefixIn(Drop(s, skip), digits)
         /\ s[skip + PrefixIn(Drop(s, skip), digits) + 1] = ";"
    THEN ParseOk(Drop(s, skip + PrefixIn(Drop(s, skip), digits) + 1),
                 <<CodePointChar(RadixToNat(SubSeq(s, skip + 1,
                                     skip + PrefixIn(Drop(s, skip), digits)), base, 0))>>)
    ELSE ParseErr("NoMatch")
chardata_unicode_codepoint(s) ==
    IF tag(<<"&", "#", "x">>, s).ok
    THEN CharRefOf(s, 16, 3, Range(HexChars))
    ELSE IF tag(<<"&", "#">>, s).ok
    THEN CharRefOf(s, 10, 2, Digits)
    ELSE ParseErr("NoMatch")

\* The general entities the document type has declared before the element,
\* name and replacement text.
DtdGeneralEntities == {<<<<"e">>, <<"b", "\t", "c">>>>, <<<<"l">>, <<"<">>>>}

\* textreference (parser::xml::reference, not among the sources): & name ;
\* gives the replacement text of the entity
textreference(s) ==
    IF tag(<<"&">>, s).ok /\ PNcname(Tail(s)).ok /\ tag(<<";">>, PNcname(Tail(s)).rest).ok
         /\ IsSome(HashMapGet(DtdGeneralEntities, PNcname(Tail(s)).out))
    THEN ParseOk(Tail(PNcname(Tail(s)).rest),
                 Unwrap(HashMapGet(DtdGeneralEntities, PNcname(Tail(s)).out)))
    ELSE ParseErr("NoMatch")

(***************************************************************************)
(* attribute_value (src/src/parser/xml/attribute.rs)                        *)
(***************************************************************************)
\* alt3(wellformed(chardata_unicode_codepoint(), no '<'), textreference(),
\*      wellformed(take_while(|c| c != '&' && c != quote), no '<'))
AttValuePiece(s, quote) ==
    alt2(wellformed(chardata_unicode_codepoint(s)),
         alt2(textreference(s), wellformed(take_while({"&", quote}, s))))

\* many0 of the pieces: it goes on while a piece is parsed and consumes input,
\* ends at a NoMatch, and fails with any other error; r is the next piece
RECURSIVE AttValuePiecesFrom(_, _, _, _)
AttValuePiecesFrom(s, quote, acc, r) ==
    IF r.ok /\ Len(r.rest) < Len(s)
    THEN AttValuePiecesFrom(r.rest, quote, Append(acc, r.out), AttValuePiece(r.rest, quote))
    ELSE IF r.ok \/ r.err = "NoMatch" THEN ParseOk(s, acc) ELSE r

\* delimited(tag(quote), many0(..), tag(quote)); o is the opening quote
AttValueClose(quote, m) ==
    IF ~ m.ok THEN m
    ELSE IF ~ tag(<<quote>>, m.rest).ok THEN tag(<<quote>>, m.rest)
    ELSE ParseOk(Drop(m.rest, 1), m.out)
AttValueDelimited(quote, s) ==
    IF ~ tag(<<quote>>, s).ok THEN tag(<<quote>>, s)
    ELSE AttValueClose(quote, AttValuePiecesFrom(Tail(s), quote, <<>>,
                                                 AttValuePiece(Tail(s), quote)))

\* str::replace of one character by another
Replace(str, from, to) == [i \in 1 .. Len(str) |-> IF str[i] = from THEN to ELSE str[i]]

\* A mutant of the normalisation: the tabs are left as they are.
AttValueNormalizeKeepingTabs(rn) ==
    Replace(Replace(Replace(Concat(rn), "\n", " "), "\r", " "), "\n", " ")

\* rn.concat().replace("\n"," ").replace("\r"," ").replace("\t"," ").replace("\n"," ")
AttValueNormalize(rn) ==
    Replace(Replace(Replace(Replace(Concat(rn), "\n", " "), "\r", " "), "\t", " "), "\n", " ")

\* the match on the result of the alt2 of the two quotings
AttValueFinish(parse) ==
    IF ~ parse.ok THEN parse
    ELSE IF \E i \in 1 .. Len(AttValueNormalize(parse.out)) :
                AttValueNormalize(parse.out)[i] = "NEL"
    THEN ParseErr("NotWellFormed")
    ELSE ParseOk(parse.rest, AttValueNormalize(parse.out))

attribute_value(s) ==
    AttValueFinish(alt2(AttValueDelimited("'", s), AttValueDelimited("\"", s)))

(***************************************************************************)
(* attribute and attributes (src/src/parser/xml/attribute.rs)               *)
(***************************************************************************)
StrXmlns == <<"x", "m", "l", "n", "s">>
StrXml == <<"x", "m", "l">>
StrSpace == <<"s", "p", "a", "c", "e">>
StrDefault == <<"D", "e", "f", "a", "u", "l", "t">>
StrPreserve == <<"P", "r", "e", "s", "e", "r", "v", "e">>
XmlNamespaceUri ==
    << "h", "t", "t", "p", ":", "/", "/", "w", "w", "w", ".", "w",
       "3", ".", "o", "r", "g", "/", "X", "M", "L", "/", "1", "9",
       "9", "8", "/", "n", "a", "m", "e", "s", "p", "a", "c", "e" >>

\* whitespace0 / whitespace1 (not among the sources): the XML S production
SkipWhitespace(s) == Drop(s, PrefixIn(s, WhiteSpace))

\* NodeBuilder::new(NodeType::Attribute).name(n).value(Value::String(s)).build()
AttributeNode(n, v) == [name |-> n, value |-> v]

\* map(tuple6(whitespace1(), qualname(), whitespace0(), tag("="),
\*            whitespace0(), attribute_value()), ..): n is the result of
\* qualname, v the result of attribute_value
AttributeBuilt(n, v) == IF ~ v.ok THEN v ELSE ParseOk(v.rest, AttributeNode(n.out, v.out))
AttributeNamed(n) ==
    IF ~ n.ok \/ ~ tag(<<"=">>, SkipWhitespace(n.rest)).ok
    THEN ParseErr("NoMatch")
    ELSE AttributeBuilt(n, attribute_value(SkipWhitespace(Tail(SkipWhitespace(n.rest)))))
attribute(s) ==
    IF PrefixIn(s, WhiteSpace) = 0
    THEN ParseErr("NoMatch")
    ELSE AttributeNamed(PQualname(SkipWhitespace(s)))

\* many0(attribute()); r is the next attribute
RECURSIVE AttributeListFrom(_, _, _)
AttributeListFrom(s, acc, r) ==
    IF r.ok /\ Len(r.rest) < Len(s)
    THEN AttributeListFrom(r.rest, Append(acc, r.out), attribute(r.rest))
    ELSE IF r.ok \/ r.err = "NoMatch" THEN ParseOk(s, acc) ELSE r

\* A mutant of the copy of the top frame: the element starts from no binding.
NamespaceTopForgotten(stack) == {}

\* state1.namespace.last().unwrap_or(&n).clone()
NamespaceTop(stack) == IF stack = <<>> THEN {} ELSE stack[Len(stack)]

\* A mutant of the first loop: the bindings are gathered and nothing is
\* checked.
RECURSIVE AttributesFirstPassLenient(_, _)
AttributesFirstPassLenient(nodes, namespaces) ==
    IF nodes = <<>> THEN [err |-> "", namespaces |-> namespaces]
    ELSE AttributesFirstPassLenient(Tail(nodes),
             IF Head(nodes).name.prefix = Some(StrXmlns)
                  \/ Head(nodes).name.localname = StrXmlns
             THEN HashMapInsert(namespaces, Head(nodes).name.localname, Head(nodes).value)
             ELSE namespaces)

\* The first loop over the nodes: the error it returns, or the bindings
\* gathered when it ends.  The xml:space test comes after the insert in the
\* source; a node that fails it is no declaration, so nothing was inserted
\* for it, and the bindings are dropped with the error anyway.
RECURSIVE AttributesFirstPass(_, _)
AttributesFirstPass(nodes, namespaces) ==
    IF nodes = <<>> THEN [err |-> "", namespaces |-> namespaces]
    ELSE IF Head(nodes).name.prefix = Some(StrXmlns) /\ Head(nodes).name.localname = StrXmlns
    THEN [err |-> "NotWellFormed", namespaces |-> {}]
    ELSE IF /\ Head(nodes).name.prefix = Some(StrXmlns)
            /\ Head(nodes).name.localname = StrXml
            /\ Head(nodes).value # XmlNamespaceUri
    THEN [err |-> "NotWellFormed", namespaces |-> {}]
    ELSE IF /\ Head(nodes).name.prefix = Some(StrXml)
            /\ Head(nodes).name.localname = StrSpace
            /\ ~ (Head(nodes).value = StrDefault \/ Head(nodes).value = StrPreserve)
    THEN [err |-> "Validation", namespaces |-> {}]
    ELSE AttributesFirstPass(Tail(nodes),
             IF Head(nodes).name.prefix = Some(StrXmlns)
                  \/ Head(nodes).name.localname = StrXmlns
             THEN HashMapInsert(namespaces, Head(nodes).name.localname, Head(nodes).value)
             ELSE namespaces)

\* node.set_nsuri
SetNsuri(node, nsuri) == [node EXCEPT !.name.nsuri = Some(nsuri)]

\* The second loop over the nodes: MissingNameSpace, or the nodes that are
\* kept, with their namespace URI set
RECURSIVE AttributesSecondPass(_, _, _)
AttributesSecondPass(nodes, namespaces, resnodes) ==
    IF nodes = <<>> THEN ParseOk(<<>>, resnodes)
    ELSE IF Head(nodes).name.prefix # Some(StrXmlns) /\ Head(nodes).name.localname # StrXmlns
    THEN IF IsSome(Head(nodes).name.prefix)
         THEN IF Unwrap(Head(nodes).name.prefix) = StrXml
              THEN AttributesSecondPass(Tail(nodes), namespaces,
                       Append(resnodes, SetNsuri(Head(nodes), XmlNamespaceUri)))
              ELSE IF HashMapGet(namespaces, Unwrap(Head(nodes).name.prefix)) = None
              THEN ParseErr("MissingNameSpace")
              ELSE AttributesSecondPass(Tail(nodes), namespaces,
                       Append(resnodes, SetNsuri(Head(nodes),
                           Unwrap(HashMapGet(namespaces, Unwrap(Head(nodes).name.prefix))))))
         ELSE AttributesSecondPass(Tail(nodes), namespaces, Append(resnodes, Head(nodes)))
    ELSE AttributesSecondPass(Tail(nodes), namespaces, resnodes)

\* A mutant of the push: a frame is pushed only when the element declares
\* something.
NamespacePushIfNew(stack, namespaces) ==
    IF namespaces = NamespaceTop(stack) THEN stack ELSE Append(stack, namespaces)

\* state1.namespace.push(namespaces.clone())
NamespacePush(stack, namespaces) == Append(stack, namespaces)

\* What attributes() returns: an error, or the rest of the input, the state
\* with its namespace stack, and the nodes
AttributesResult(second, rest, stack) ==
    [ok |-> second.ok, err |-> second.err, rest |-> IF second.ok THEN rest ELSE <<>>,
     out |-> second.out, namespace |-> IF second.ok THEN stack ELSE <<>>]

\* the Ok arm of attributes(): m is the result of many0(attribute()), first
\* the result of the first loop
AttributesPasses(m, stack, first) ==
    IF first.err # ""
    THEN AttributesResult(ParseErr(first.err), <<>>, <<>>)
    ELSE AttributesResult(AttributesSecondPass(m.out, first.namespaces, <<>>), m.rest,
                          NamespacePush(stack, first.namespaces))
AttributesOf(m, stack) ==
    IF ~ m.ok
    THEN AttributesResult(m, <<>>, <<>>)
    ELSE AttributesPasses(m, stack, AttributesFirstPass(m.out, NamespaceTop(stack)))

\* attributes()((s, state)) with state.namespace = stack
attributes(s, stack) == AttributesOf(AttributeListFrom(s, <<>>, attribute(s)), stack)

(***************************************************************************)
(* The start tags the attribute parser is given: each attribute is written  *)
(* as one space, the name, = and the value in double quotes.                *)
(***************************************************************************)
SrcAttr(prefix, local, value) == [prefix |-> prefix, local |-> local, value |-> value]
SrcAttrText(a) ==
    <<" ">> \o (IF IsSome(a.prefix) THEN Unwrap(a.prefix) \o <<":">> ELSE <<>>)
        \o a.local \o <<"=", "\"">> \o a.value \o <<"\"">>
SrcAttrsText(as) == Concat([i \in 1 .. Len(as) |-> SrcAttrText(as[i])]) \o <<">">>

(***************************************************************************)
(* Elements opening and closing.  The element production is not among the   *)
(* sources: it runs attributes() after the name of the start tag, takes the *)
(* frame off the stack when the element is complete, and when the element   *)
(* fails the state comes back to what the production was given.             *)
(***************************************************************************)
ScopeAttrs ==
    { SrcAttr(Some(StrXmlns), <<"p">>, <<"u">>), SrcAttr(Some(StrXmlns), <<"p">>, <<"w">>),
      SrcAttr(Some(StrXmlns), <<"q">>, <<"u">>), SrcAttr(Some(<<"p">>), <<"a">>, <<"1">>),
      SrcAttr(Some(StrXmlns), StrXmlns, <<"u">>) }
ScopeAttrLists == {<<>>} \cup {<<a>> : a \in ScopeAttrs}

ScopeInit ==
    /\ QIdle /\ AIdle /\ BIdle /\ SIdle /\ TIdle /\ NIdle
    /\ namespace = <<>>
    /\ pinput = <<>>
    /\ pentry = <<>>
    /\ pres = SNoCall

\* The start tag of an element: attributes() on its attribute list.  When it
\* fails the element fails, and the state is the one the element was given.
PElementEnter ==
    \E as \in ScopeAttrLists :
        \E r \in {attributes(SrcAttrsText(as), namespace)} :
            /\ Len(pentry) < MaxDepth
            /\ pres' = SCall("element_enter", <<as, namespace>>, r)
            /\ namespace' = IF r.ok THEN r.namespace ELSE namespace
            /\ pentry' = IF r.ok THEN Append(pentry, namespace) ELSE pentry
            /\ UNCHANGED <<pinput, prest>>

\* The end tag of the innermost open element: its frame is taken off.
PElementExit ==
    /\ pentry # <<>>
    /\ namespace' = SubSeq(namespace, 1, Len(namespace) - 1)
    /\ pentry' = SubSeq(pentry, 1, Len(pentry) - 1)
    /\ pres' = SCall("element_exit", <<pentry[Len(pentry)], NamespaceTop(namespace)>>, Unit)
    /\ UNCHANGED <<pinput, prest>>

\* The innermost open element fails after its start tag: the error leaves
\* the caller with the state it gave to the element.
PElementFail ==
    /\ pentry # <<>>
    /\ namespace' = pentry[Len(pentry)]
    /\ pentry' = SubSeq(pentry, 1, Len(pentry) - 1)
    /\ pres' = SCall("element_fail", <<pentry[Len(pentry)], NamespaceTop(namespace)>>, Unit)
    /\ UNCHANGED <<pinput, prest>>

ScopeNext == PElementEnter \/ PElementExit \/ PElementFail

SpecScope == ScopeInit /\ [][ScopeNext]_vars

\* The bindings an element finds in force: those on top of the stack it is
\* given, none when the stack is empty.
InForce(stack) == IF Len(stack) = 0 THEN {} ELSE stack[Len(stack)]

\* The declarations of an attribute list read from its source form, and the
\* bindings they give when laid over inherited ones.
RECURSIVE Declared(_, _)
Declared(as, inherited) ==
    IF as = <<>> THEN inherited
    ELSE Declared(Tail(as),
             IF Head(as).prefix = Some(StrXmlns) \/ Head(as).local = StrXmlns
             THEN {e \in inherited : e[1] # Head(as).local}
                      \cup {<<Head(as).local, Head(as).value>>}
             ELSE inherited)

\* C16: over any sequence of element entries and exits, the attribute parser
\* of an element that starts pushes exactly one frame, the bindings on top at
\* entry with the element's own declarations laid over them; when an element
\* ends, whether it succeeded or failed, the stack is what it was when the
\* element was entered, and there is one frame for each open element.
C16_NamespaceScoping ==
    /\ Len(namespace) = Len(pentry)
    /\ \A i \in 1 .. Len(pentry) : pentry[i] = SubSeq(namespace, 1, i - 1)
    /\ (pres.op = "element_enter" /\ pres.ret.ok) =>
          namespace = pres.args[2]
                        \o <<Declared(pres.args[1], InForce(pres.args[2]))>>
    /\ (pres.op = "element_enter" /\ ~ pres.ret.ok) => namespace = pres.args[2]
    /\ pres.op \in {"element_exit", "element_fail"} => namespace = pres.args[1]

\* C16 case: an element that rebound p inside an element binding p has ended
\* and the outer binding of p is in force again.
C16_Witness ==
    /\ pres.op = "element_exit"
    /\ Len(namespace) = 1
    /\ <<<<"p">>, <<"u">>>> \in namespace[1]
    /\ <<<<"p">>, <<"w">>>> \in pres.args[2]
    /\ pres.args[1] = namespace

(***************************************************************************)
(* attributes() on one start tag: the stack the element inherits and the    *)
(* attribute list are drawn at the start.                                   *)
(***************************************************************************)
SrcAttrs ==
    { SrcAttr(Some(StrXmlns), <<"p">>, <<"u">>), SrcAttr(Some(<<"p">>), <<"a">>, <<"1">>),
      SrcAttr(Some(<<"q">>), <<"b">>, <<"2">>), SrcAttr(Some(StrXmlns), StrXmlns, <<"u">>),
      SrcAttr(Some(StrXmlns), StrXml, <<"u">>), SrcAttr(Some(StrXmlns), StrXml, XmlNamespaceUri),
      SrcAttr(Some(StrXml), StrSpace, StrDefault), SrcAttr(Some(StrXml), StrSpace, <<"x">>),
      SrcAttr(None, StrXmlns, <<"u">>), SrcAttr(None, <<"a">>, <<"1">>),
      SrcAttr(Some(StrXml), <<"a">>, <<"1">>), SrcAttr(Some(<<"p">>), StrXmlns, <<"u">>) }
SrcAttrLists == UNION {[1 .. n -> SrcAttrs] : n \in 0 .. MaxAttrs}
InheritedStacks ==
    { <<>>, <<{<<<<"p">>, <<"w">>>>}>>,
      <<{<<<<"q">>, <<"u">>>>}, {<<<<"q">>, <<"u">>>>, <<<<"p">>, <<"w">>>>}>> }

AttrInit ==
    /\ QIdle /\ AIdle /\ BIdle /\ SIdle /\ TIdle /\ NIdle
    /\ namespace \in InheritedStacks
    /\ pinput \in SrcAttrLists
    /\ pentry = <<>>
    /\ pres = SNoCall

\* attributes()((input, state)); an error leaves no state behind
PAttributesCall ==
    \E r \in {attributes(SrcAttrsText(pinput), namespace)} :
        /\ pres.op = "none"
        /\ pres' = SCall("attributes", <<namespace>>, r)
        /\ namespace' = IF r.ok THEN r.namespace ELSE namespace
        /\ UNCHANGED <<pinput, pentry, prest>>

SpecAttributes == AttrInit /\ [][PAttributesCall]_vars

\* The attribute list read from its source form.
IsDeclaration(a) == a.prefix = Some(StrXmlns) \/ a.local = StrXmlns
Offence(a) ==
    CASE a.prefix = Some(StrXmlns) /\ a.local = StrXmlns -> "NotWellFormed"
      [] a.prefix = Some(StrXmlns) /\ a.local = StrXml /\ a.value # XmlNamespaceUri
            -> "NotWellFormed"
      [] a.prefix = Some(StrXml) /\ a.local = StrSpace
            /\ a.value \notin {StrDefault, StrPreserve} -> "Validation"
      [] OTHER -> ""
Offenders == {i \in 1 .. Len(pinput) : Offence(pinput[i]) # ""}
\* The URIs a prefix can stand for: those this element declares for it, or
\* else the one the inherited bindings give it.
OwnUris(prefix) ==
    {pinput[i].value : i \in {j \in 1 .. Len(pinput) :
                                 IsDeclaration(pinput[j]) /\ pinput[j].local = prefix}}
BoundUris(prefix) ==
    IF prefix = StrXml THEN {XmlNamespaceUri}
    ELSE IF OwnUris(prefix) # {} THEN OwnUris(prefix)
    ELSE {e[2] : e \in {f \in InForce(pres.args[1]) : f[1] = prefix}}
Unbound ==
    {i \in 1 .. Len(pinput) : /\ ~ IsDeclaration(pinput[i])
                              /\ IsSome(pinput[i].prefix)
                              /\ BoundUris(Unwrap(pinput[i].prefix)) = {}}
NotDeclaration(a) == ~ IsDeclaration(a)
Kept == SelectSeq(pinput, NotDeclaration)

\* C17: in the attribute list of one element that passes the first loop,
\* every attribute that is not a namespace declaration and has a prefix gets
\* the fixed XML URI when the prefix is xml, and otherwise the URI that the
\* inherited bindings, overridden by the element's own declarations, give the
\* prefix, wherever the declaration stands in the list; a prefix bound nowhere
\* fails the list with MissingNamespace; the declarations are not in the
\* returned list and the other attributes are, in source order.
C17_SecondPass ==
    (pres.op = "attributes" /\ Offenders = {}) =>
        /\ Unbound # {} => (~ pres.ret.ok /\ pres.ret.err = "MissingNameSpace")
        /\ Unbound = {} =>
              /\ pres.ret.ok
              /\ Len(pres.ret.out) = Len(Kept)
              /\ \A i \in 1 .. Len(Kept) :
                    /\ pres.ret.out[i].name.prefix = Kept[i].prefix
                    /\ pres.ret.out[i].name.localname = Kept[i].local
                    /\ pres.ret.out[i].value = Kept[i].value
                    /\ IF IsSome(Kept[i].prefix)
                       THEN /\ IsSome(pres.ret.out[i].name.nsuri)
                            /\ Unwrap(pres.ret.out[i].name.nsuri)
                                   \in BoundUris(Unwrap(Kept[i].prefix))
                       ELSE pres.ret.out[i].name.nsuri = None

\* C17 case: an attribute with prefix p stands before the declaration of p,
\* which overrides an inherited binding of p, and got the declared URI.
C17_Witness ==
    /\ pres.op = "attributes"
    /\ Len(pinput) = 2
    /\ pinput[1] = SrcAttr(Some(<<"p">>), <<"a">>, <<"1">>)
    /\ pinput[2] = SrcAttr(Some(StrXmlns), <<"p">>, <<"u">>)
    /\ <<<<"p">>, <<"w">>>> \in InForce(pres.args[1])
    /\ pres.ret.ok
    /\ Len(pres.ret.out) = 1
    /\ pres.ret.out[1].name.nsuri = Some(<<"u">>)

SrcPiece(src, val) == [src |-> src, val |-> val]
SrcPieces ==
    { SrcPiece(<<"a">>, <<"a">>), SrcPiece(<<" ">>, <<" ">>), SrcPiece(<<"\n">>, <<"\n">>),
      SrcPiece(<<"\r">>, <<"\r">>), SrcPiece(<<"\t">>, <<"\t">>), SrcPiece(<<"<">>, <<"<">>),
      SrcPiece(<<"&", "#", "1", "0", ";">>, <<"\n">>),
      SrcPiece(<<"&", "#", "x", "9", ";">>, <<"\t">>),
      SrcPiece(<<"&", "#", "1", "3", ";">>, <<"\r">>),
      SrcPiece(<<"&", "#", "6", "0", ";">>, <<"<">>),
      SrcPiece(<<"&", "#", "x", "3", "c", ";">>, <<"<">>),
      SrcPiece(<<"&", "#", "1", "3", "3", ";">>, <<"NEL">>),
      SrcPiece(<<"&", "e", ";">>, <<"b", "\t", "c">>),
      SrcPiece(<<"&", "l", ";">>, <<"<">>) }
SrcValues ==
    [quote : {"'", "\""}, pieces : UNION {[1 .. n -> SrcPieces] : n \in 0 .. MaxPieces}]
SrcValueText(v) ==
    <<v.quote>> \o Concat([i \in 1 .. Len(v.pieces) |-> v.pieces[i].src]) \o <<v.quote, ">">>

AttValueInit ==
    /\ QIdle /\ AIdle /\ BIdle /\ SIdle /\ TIdle /\ NIdle
    /\ namespace = <<>>
    /\ pinput \in SrcValues
    /\ pentry = <<>>
    /\ pres = SNoCall

\* attribute_value()((input, state))
PAttributeValue ==
    /\ pres.op = "none"
    /\ pres' = SCall("attribute_value", <<>>, attribute_value(SrcValueText(pinput)))
    /\ UNCHANGED <<namespace, pinput, pentry, prest>>

SpecAttValue == AttValueInit /\ [][PAttributeValue]_vars

\* The characters the pieces of the value stand for, in order.
Assembled == Concat([i \in 1 .. Len(pinput.pieces) |-> pinput.pieces[i].val])

C20_NoLessThan ==
    pres.op = "attribute_value" =>
        /\ (\E i \in 1 .. Len(Assembled) : Assembled[i] = "<")
              => (~ pres.ret.ok /\ pres.ret.err = "NotWellFormed")
        /\ pres.ret.ok => \A i \in 1 .. Len(pres.ret.out) : pres.ret.out[i] # "<"

(***************************************************************************)
(* document and parse (src/src/parsexml.rs)                                 *)
(***************************************************************************)
XMLDocument(p, c, e) == [prologue |-> p, content |-> c, epilogue |-> e]

\* prolog and misc: not implemented in the source, they match this literal
\* only and give no node
PProlog(s) == IF PTag(NotYetImplemented, s).ok
              THEN POk(Drop(s, Len(NotYetImplemented)), <<>>) ELSE PErr
PMisc(s) == PProlog(s)

\* document = tuple((opt(prolog), element, opt(misc))): p is what opt(prolog)
\* gave, e what element gave after it
PDocumentBuild(p, e, m) ==
    POk(m.rest, XMLDocument(IF IsSome(p.out) THEN Unwrap(p.out) ELSE <<>>, <<e.out>>,
                            IF IsSome(m.out) THEN Unwrap(m.out) ELSE <<>>))
PDocumentFrom(p, e) ==
    IF ~ e.ok THEN PErr ELSE PDocumentBuild(p, e, POpt(PMisc(e.rest), e.rest))
PDocumentAfter(p) == PDocumentFrom(p, PElement(p.rest))
PDocument(s) == PDocumentAfter(POpt(PProlog(s), s))

\* A mutant of parse: what is left of the input is not looked at.
ParseResultIgnoringRest(r) ==
    IF r.ok THEN Ok(r.out) ELSE Err("Unknown", <<"parser error">>)

\* parse: the match on the result r of document(e)
ParseResult(r) ==
    IF r.ok
    THEN IF r.rest = <<>>
         THEN Ok(r.out)
         ELSE Err("Unknown", <<"extra characters after expression">>)
    ELSE Err("Unknown", <<"parser error">>)
parse(e) == ParseResult(PDocument(e))

(***************************************************************************)
(* The inputs given to parse: tags and text runs put one after another.     *)
(***************************************************************************)
SrcToken(kind, name, src) == [kind |-> kind, name |-> name, src |-> src]
SrcTokens ==
    { SrcToken("open", <<"a">>, <<"<", "a", ">">>),
      SrcToken("open", <<"b">>, <<"<", "b", " ", "x", "=", "'", "1", "'", ">">>),
      SrcToken("close", <<"a">>, <<"<", "/", "a", ">">>),
      SrcToken("close", <<"b">>, <<"<", "/", "b", ">">>),
      SrcToken("empty", <<"c">>, <<"<", "c", "/", ">">>),
      SrcToken("text", <<>>, <<"t">>) }
SrcTokenLists == UNION {[1 .. n -> SrcTokens] : n \in 0 .. MaxTokens}
SrcTokensText(ts) == Concat([i \in 1 .. Len(ts) |-> ts[i].src])

ParseInit ==
    /\ QIdle /\ AIdle /\ BIdle /\ SIdle /\ TIdle /\ NIdle
    /\ namespace = <<>>
    /\ pinput \in SrcTokenLists
    /\ pentry = <<>>
    /\ pres = SNoCall

\* parse(e)
PParse ==
    /\ pres.op = "none"
    /\ pres' = SCall("parse", <<>>, parse(SrcTokensText(pinput)))
    /\ UNCHANGED <<namespace, pinput, pentry, prest>>

SpecParse == ParseInit /\ [][PParse]_vars

\* The input read token by token: the names of the elements open after each
\* token, or Broken when an end tag comes with nothing open.
Broken == <<<<"!">>>>
RECURSIVE OpenAfter(_, _)
OpenAfter(ts, n) ==
    IF n = 0 THEN <<>>
    ELSE IF OpenAfter(ts, n - 1) = Broken THEN Broken
    ELSE IF ts[n].kind = "open" THEN Append(OpenAfter(ts, n - 1), ts[n].name)
    ELSE IF ts[n].kind = "close"
    THEN IF OpenAfter(ts, n - 1) = <<>> THEN Broken
         ELSE SubSeq(OpenAfter(ts, n - 1), 1, Len(OpenAfter(ts, n - 1)) - 1)
    ELSE OpenAfter(ts, n - 1)

\* Some end tag closes an element opened under another name.
MismatchedEndTag ==
    \E n \in 1 .. Len(pinput) :
        /\ pinput[n].kind = "close"
        /\ OpenAfter(pinput, n - 1) \notin {<<>>, Broken}
        /\ OpenAfter(pinput, n - 1)[Len(OpenAfter(pinput, n - 1))] # pinput[n].name

\* C21: an input in which an element is opened under one name and closed
\* under another is rejected: parse returns an error and no document.
C21_EndTagNameMatches ==
    (pres.op = "parse" /\ MismatchedEndTag) => pres.ret.tag = "Err"

\* The children the outermost element has by the tokens between its tags:
\* one element for each start tag or empty-element tag met with only the
\* outermost element open, one text for each run of text tokens met there.
RECURSIVE RootChildren(_, _)
RootChildren(ts, n) ==
    IF n <= 1 THEN <<>>
    ELSE IF Len(OpenAfter(ts, n - 1)) # 1 \/ ts[n].kind = "close"
    THEN RootChildren(ts, n - 1)
    ELSE IF ts[n].kind \in {"open", "empty"}
    THEN Append(RootChildren(ts, n - 1), [kind |-> "Element", label |-> ts[n].name])
    ELSE IF ts[n - 1].kind = "text"
    THEN [RootChildren(ts, n - 1) EXCEPT ![Len(RootChildren(ts, n - 1))].label = @ \o ts[n].src]
    ELSE Append(RootChildren(ts, n - 1), [kind |-> "Text", label |-> ts[n].src])

\* What a parsed node shows of itself: its kind and its name or its text.
Shown(x) ==
    [kind |-> x.kind,
     label |-> IF x.kind = "Element" THEN Unwrap(x.name).localname ELSE Unwrap(x.value)]

\* The tokens are one element from the first to the last.
OneElementInput ==
    /\ pinput # <<>>
    /\ OpenAfter(pinput, Len(pinput)) = <<>>
    /\ \A n \in 1 .. Len(pinput) - 1 :
          OpenAfter(pinput, n) # Broken /\ OpenAfter(pinput, n) # <<>>

\* C22: parse succeeds only when the document production consumes the whole
\* input, so an input with anything after its first element is an error; a
\* document returned has exactly one node in its content, an element, whose
\* children are its text runs and child elements in source order.
C22_WholeInputOneElement ==
    (pres.op = "parse" /\ pres.ret.tag = "Ok") =>
        /\ OneElementInput
        /\ Len(pres.ret.val.content) = 1
        /\ pres.ret.val.content[1].kind = "Element"
        /\ pres.ret.val.content[1].name = Some(QualifiedName(None, None, pinput[1].name))
        /\ [i \in 1 .. Len(pres.ret.val.content[1].content) |->
                Shown(pres.ret.val.content[1].content[i])]
              = RootChildren(pinput, Len(pinput))

\* C22 case: an element with mixed content, text, a child element, text, was
\* parsed and has these three children in this order.
C22_Witness ==
    /\ pres.op = "parse"
    /\ pres.ret.tag = "Ok"
    /\ Len(pinput) = 5
    /\ Len(pres.ret.val.content[1].content) = 3
    /\ [i \in 1 .. 3 |-> pres.ret.val.content[1].content[i].kind]
          = <<"Text", "Element", "Text">>

(***************************************************************************)
(* Serialisation (src/src/rctree.rs) and the round trip through parse.      *)
(***************************************************************************)
\* The A-tree holding what parse gave for a node: an element has its
\* attributes and then its content as children.
RECURSIVE ANodeOfXml(_), ANodesOfXml(_)
ANodeOfXml(x) ==
    CASE x.kind = "Element" ->
            ABuildChildren(ABuildName(ANodeNew("Element"), Unwrap(x.name)),
                           ANodesOfXml(x.attrs) \o ANodesOfXml(x.content))
      [] x.kind = "Attribute" ->
            ABuildValue(ABuildName(ANodeNew("Attribute"), Unwrap(x.name)),
                        Unwrap(x.value))
      [] x.kind = "PI" ->
            ABuildValue(ABuildPiName(ANodeNew("ProcessingInstruction"),
                                     Unwrap(x.target)), Unwrap(x.value))
      [] OTHER -> ABuildValue(ANodeNew(x.kind), Unwrap(x.value))
ANodesOfXml(xs) ==
    IF xs = <<>> THEN <<>> ELSE <<ANodeOfXml(Head(xs))>> \o ANodesOfXml(Tail(xs))

\* RANode::to_xml: an element is its name in a start tag, its children, its
\* name in an end tag; a text is its value; any other node is empty.
RECURSIVE ANodeToXml(_), ANodesToXml(_)
ANodeToXml(n) ==
    CASE n.node_type = "Element" ->
            <<"<">> \o QToString(Unwrap(n.name)) \o <<">">>
                \o ANodesToXml(n.children)
                \o <<"<", "/">> \o QToString(Unwrap(n.name)) \o <<">">>
      [] n.node_type = "Text" -> Unwrap(n.value)
      [] OTHER -> <<>>
ANodesToXml(ns) ==
    IF ns = <<>> THEN <<>> ELSE ANodeToXml(Head(ns)) \o ANodesToXml(Tail(ns))

\* RADoc::to_xml: the fold over content_iter()
ADocToXml(d) == ANodesToXml(d.content)

\* parse(e), to_xml of the tree of the document it gave, parse again
PRoundTrip ==
    /\ pres.op = "parse"
    /\ pres.ret.tag = "Ok"
    /\ pres' = SCall("round_trip", <<pres.ret.val>>,
                     parse(ADocToXml(ADocBuild(<<>>, ANodesOfXml(pres.ret.val.content),
                                               <<>>))))
    /\ UNCHANGED <<namespace, pinput, pentry, prest>>

SpecRoundTrip == ParseInit /\ [][PParse \/ PRoundTrip]_vars

\* C23: a document that was parsed, serialised with to_xml and parsed again
\* is a document again, equal to the first in element names, attribute names
\* and values, text values and child order.
C23_RoundTrip ==
    pres.op = "round_trip" =>
        /\ pres.ret.tag = "Ok"
        /\ pres.ret.val.content = pres.args[1].content

(***************************************************************************)
(* Evaluation of a stylesheet with xsl:message, as the rig of               *)
(* src/tests/xsltgeneric/mod.rs drives it: the source is a document element *)
(* with text and element children; the stylesheet applies templates to the  *)
(* children, a text is copied to the result, an element instantiates a      *)
(* template that may hold an xsl:message before its literal element L.      *)
(***************************************************************************)
MaxSource == 4

SrcText(v) == [kind |-> "Text", text |-> v]
SrcElement(v) == [kind |-> "Element", text |-> v]
SrcNodes == {SrcText("one"), SrcElement("blue"), SrcElement("green")}
Sources == UNION {[1 .. n -> SrcNodes] : n \in 0 .. MaxSource}

\* The stylesheets of generic_message_1 and generic_message_term, and the
\* same stylesheet without its xsl:message
MessageText == "here is a level 1 element"
InsMessage(terminate) == [ins |-> "message", terminate |-> terminate]
InsLiteral == [ins |-> "literal", terminate |-> FALSE]
InsSequence == [ins |-> "sequence", terminate |-> FALSE]
Styles == [msg : {"none", "message", "terminate"}, sink : {"ok", "fail"}]
TemplateOf(style, n) ==
    IF n.kind = "Text" THEN <<InsSequence>>
    ELSE IF style.msg = "none" THEN <<InsLiteral>>
    ELSE <<InsMessage(style.msg = "terminate"), InsLiteral>>

\* What evaluation returns: a sequence, or an error with kind, message, code
EvalOk(seq) ==
    [tag |-> "Ok", val |-> seq, kind |-> "", message |-> "", code |-> None]
EvalErr(kind, message, code) ==
    [tag |-> "Err", val |-> <<>>, kind |-> kind, message |-> message, code |-> code]
EvalPending == [tag |-> "None", val |-> <<>>, kind |-> "", message |-> "", code |-> None]

\* The message sink of the caller: the one of test_msg_rig pushes the message
\* and returns Ok(()); the other refuses every message
SinkError == EvalErr("Unknown", "sink refused", None)
SinkCall(style, m) == IF style.sink = "ok" THEN EvalOk(<<>>) ELSE SinkError
SinkPush(style, msgs, m) == IF style.sink = "ok" THEN Append(msgs, m) ELSE msgs

\* A mutant of xsl:message: terminate is not looked at.
MessageOutcomeNeverTerminates(sunk, terminate, m) ==
    IF sunk.tag = "Err" THEN sunk ELSE EvalOk(<<>>)

\* A mutant of xsl:message: what the sink returned is dropped.
MessageOutcomeSinkIgnored(sunk, terminate, m) ==
    IF terminate THEN EvalErr("Terminated", m, Some("XTMM9000")) ELSE EvalOk(<<>>)

\* xsl:message after its sink returned sunk: the sink's error, or with
\* terminate the error Terminated with code XTMM9000 and the message, or
\* the empty sequence
MessageOutcome(sunk, terminate, m) ==
    IF sunk.tag = "Err" THEN sunk
    ELSE IF terminate THEN EvalErr("Terminated", m, Some("XTMM9000"))
    ELSE EvalOk(<<>>)

\* The item an instruction other than xsl:message adds to the result
LiteralL == [kind |-> "Element", label |-> "L"]
TextItem(n) == [kind |-> "Text", label |-> n.text]

\* The instruction evaluation is at, and where it goes from there
TRunning == tres.op = "evaluate" /\ tres.ret.tag = "None"
TAtNode == TRunning /\ tpc.node <= Len(tsrc)
TInstruction == TemplateOf(tstyle, tsrc[tpc.node])[tpc.instr]
TAdvance ==
    IF tpc.instr < Len(TemplateOf(tstyle, tsrc[tpc.node]))
    THEN [tpc EXCEPT !.instr = @ + 1]
    ELSE [node |-> tpc.node + 1, instr |-> 1]

MessageInit ==
    /\ QIdle /\ AIdle /\ BIdle /\ SIdle /\ NIdle /\ PIdle
    /\ tsrc \in Sources
    /\ tstyle \in Styles
    /\ tpc = TStart
    /\ tout = <<>>
    /\ tmsgs = <<>>
    /\ tkeys = {}
    /\ tres = SNoCall

\* ctxt.evaluate(&mut stctxt) is called
TEvaluate ==
    /\ tres.op = "none"
    /\ tres' = SCall("evaluate", <<>>, EvalPending)
    /\ UNCHANGED <<tsrc, tstyle, tpc, tout, tmsgs, tkeys, trest>>

\* xsl:sequence select='.' in the template of a text
TSequence ==
    /\ TAtNode
    /\ TInstruction.ins = "sequence"
    /\ tout' = Append(tout, TextItem(tsrc[tpc.node]))
    /\ tpc' = TAdvance
    /\ UNCHANGED <<tsrc, tstyle, tmsgs, tkeys, tres, trest>>

\* the literal result element L
TLiteral ==
    /\ TAtNode
    /\ TInstruction.ins = "literal"
    /\ tout' = Append(tout, LiteralL)
    /\ tpc' = TAdvance
    /\ UNCHANGED <<tsrc, tstyle, tmsgs, tkeys, tres, trest>>

\* xsl:message: the sink is invoked with the text; an error ends evaluation
TMessage ==
    /\ TAtNode
    /\ TInstruction.ins = "message"
    /\ \E r \in {MessageOutcome(SinkCall(tstyle, MessageText),
                                TInstruction.terminate, MessageText)} :
          /\ tmsgs' = SinkPush(tstyle, tmsgs, MessageText)
          /\ tres' = IF r.tag = "Err" THEN SCall("evaluate", <<>>, r) ELSE tres
          /\ tpc' = IF r.tag = "Err" THEN tpc ELSE TAdvance
          /\ tout' = tout \o r.val
    /\ UNCHANGED <<tsrc, tstyle, tkeys, trest>>

\* every child has been dealt with: evaluate returns the result sequence
TReturn ==
    /\ TRunning
    /\ tpc.node > Len(tsrc)
    /\ tres' = SCall("evaluate", <<>>, EvalOk(tout))
    /\ UNCHANGED <<tsrc, tstyle, tpc, tout, tmsgs, tkeys, trest>>

MessageNext == TEvaluate \/ TSequence \/ TLiteral \/ TMessage \/ TReturn

SpecMessage == MessageInit /\ [][MessageNext]_vars

\* What the source gives without any xsl:message: a text for a text, the
\* literal element for an element, in document order.
ResultWithoutMessage ==
    [i \in 1 .. Len(tsrc) |->
        IF tsrc[i].kind = "Text"
        THEN [kind |-> "Text", label |-> tsrc[i].text]
        ELSE [kind |-> "Element", label |-> "L"]]
ElementsBefore(n) == {i \in 1 .. n - 1 : tsrc[i].kind = "Element"}
HasElement == ElementsBefore(Len(tsrc) + 1) # {}
AtMessage ==
    /\ tres.op = "evaluate"
    /\ tres.ret.tag = "None"
    /\ tstyle.msg # "none"
    /\ tpc.node <= Len(tsrc)
    /\ tsrc[tpc.node].kind = "Element"
    /\ tpc.instr = 1
Evaluated == tres.op = "evaluate" /\ tres.ret.tag # "None"
TerminatedError ==
    [tag |-> "Err", val |-> <<>>, kind |-> "Terminated", message |-> MessageText,
     code |-> Some("XTMM9000")]
SinkAccepts == tstyle.sink = "ok"

\* The step of a terminating message whose text the sink accepted
TerminatingStep ==
    (AtMessage /\ tstyle.msg = "terminate" /\ SinkAccepts) =>
        /\ tres'.ret = TerminatedError
        /\ tout' = tout
        /\ tmsgs' = Append(tmsgs, MessageText)
\* Nothing is done once evaluation has returned
NoStepAfterReturn == ~ Evaluated
\* What is left when evaluation has returned under a terminating message
TerminatedAtFirstElement ==
    (Evaluated /\ tstyle.msg = "terminate" /\ SinkAccepts) =>
        IF HasElement
        THEN /\ tres.ret = TerminatedError
             /\ tmsgs = <<MessageText>>
             /\ tsrc[Len(tout) + 1].kind = "Element"
             /\ tout = SubSeq(ResultWithoutMessage, 1, Len(tout))
        ELSE /\ tres.ret.tag = "Ok"
             /\ tmsgs = <<>>

MessageStep ==
    (AtMessage /\ tstyle.msg = "message") =>
        /\ tout' = tout
        /\ IF SinkAccepts
           THEN /\ tmsgs' = Append(tmsgs, MessageText)
                /\ tres'.ret.tag = "None"
                /\ tpc' = [node |-> tpc.node, instr |-> 2]
           ELSE /\ tres'.ret = [tag |-> "Err", val |-> <<>>, kind |-> "Unknown",
                                message |-> "sink refused", code |-> None]
\* The sink has one message for each element the templates were instantiated
\* for so far
OneMessageEach ==
    (tres.op = "evaluate" /\ tstyle.msg = "message" /\ SinkAccepts) =>
        /\ tres.ret.tag # "Err"
        /\ tmsgs = [i \in 1 .. Len(tmsgs) |-> MessageText]
        /\ Len(tmsgs) = Cardinality(ElementsBefore(tpc.node))
                           + (IF tpc.instr = 2 THEN 1 ELSE 0)
        /\ tres.ret.tag = "Ok" => tres.ret.val = ResultWithoutMessage

\* C25: each xsl:message without terminate invokes the sink once with the
\* message text, in the order the templates are instantiated, adds nothing to
\* the result and lets evaluation go on: k elements give k messages and the
\* result is the one the stylesheet gives without the message; an error of
\* the sink is returned from evaluation unchanged.
C25_MessageSinkOnce ==
    /\ [][MessageStep]_vars
    /\ []OneMessageEach

\* C25 case: evaluation returned a sequence after the sink took a message
\* for each of several elements with text between them.
C25_Witness ==
    /\ Evaluated
    /\ tstyle.msg = "message"
    /\ tres.ret.tag = "Ok"
    /\ Len(tmsgs) >= 2
    /\ Len(tmsgs) < Len(tsrc)

(***************************************************************************)
(* Keys, as the rig of src/tests/xsltgeneric/mod.rs uses them: the key of   *)
(* generic_key_1 matches child::* and uses child::text(), and                *)
(* populate_key_values is called on the source before evaluation.  A node   *)
(* is named by its place among the children of the document element.        *)
(***************************************************************************)
\* <xsl:key name='mykey' match='child::*' use='child::text()'/>
KeyMatches(n) == n.kind = "Element"
KeyUse(n) == n.text

\* A mutant of the binding: the node is put before those already bound.
KeyBindFront(index, v, node) ==
    HashMapInsert(index, v,
                  <<node>> \o (IF IsSome(HashMapGet(index, v))
                               THEN Unwrap(HashMapGet(index, v)) ELSE <<>>))

\* The use-expression's value v is bound to the node in the key index
KeyBind(index, v, node) ==
    HashMapInsert(index, v,
                  (IF IsSome(HashMapGet(index, v))
                   THEN Unwrap(HashMapGet(index, v)) ELSE <<>>) \o <<node>>)

\* populate_key_values: each node of the source in document order, from the
\* i-th on; a node the pattern matches is bound
RECURSIVE PopulateKeyValuesFrom(_, _, _)
PopulateKeyValuesFrom(src, i, index) ==
    IF i > Len(src) THEN index
    ELSE PopulateKeyValuesFrom(src, i + 1,
                               IF KeyMatches(src[i])
                               THEN KeyBind(index, KeyUse(src[i]), i)
                               ELSE index)
PopulateKeyValues(src) == PopulateKeyValuesFrom(src, 1, {})

\* key(name, v): the nodes bound to v, none when v is not bound
KeyLookup(index, v) ==
    IF IsSome(HashMapGet(index, v)) THEN Unwrap(HashMapGet(index, v)) ELSE <<>>

KeyValues == {"blue", "green", "red", "one"}

KeyInit ==
    /\ QIdle /\ AIdle /\ BIdle /\ SIdle /\ NIdle /\ PIdle
    /\ tsrc \in Sources
    /\ tstyle = [msg |-> "none", sink |-> "ok"]
    /\ tpc = TStart
    /\ tout = <<>>
    /\ tmsgs = <<>>
    /\ tkeys = {}
    /\ tres = SNoCall

\* ctxt.populate_key_values(&mut stctxt, srcdoc)
TPopulateKeyValues ==
    /\ tres.op = "none"
    /\ tkeys' = PopulateKeyValues(tsrc)
    /\ tres' = SCall("populate_key_values", <<>>, EvalOk(<<>>))
    /\ UNCHANGED <<tsrc, tstyle, tpc, tout, tmsgs, trest>>

\* key("mykey", v) during the evaluation that follows
TKey ==
    \E v \in KeyValues :
        /\ tres.op # "none"
        /\ tres' = SCall("key", <<v>>, EvalOk(KeyLookup(tkeys, v)))
        /\ UNCHANGED <<tsrc, tstyle, tpc, tout, tmsgs, tkeys, trest>>

SpecKey == KeyInit /\ [][TPopulateKeyValues \/ TKey]_vars

\* The nodes of the source, in document order, that are elements with text v
RECURSIVE ElementsWithText(_, _)
ElementsWithText(v, n) ==
    IF n = 0 THEN <<>>
    ELSE ElementsWithText(v, n - 1)
            \o (IF tsrc[n].kind = "Element" /\ tsrc[n].text = v THEN <<n>> ELSE <<>>)

C27_PushErrorKind ==
    ares.tag = "Err" => ares.kind = "Mutation"

(***************************************************************************)
(* The conversion of A-documents made of elements and texts, in prologue,   *)
(* content and epilogue, and the serialisation of both documents.           *)
(***************************************************************************)
\* BNode::to_xml
RECURSIVE BNodeToXml(_), BNodesToXml(_)
BNodeToXml(n) ==
    CASE bnodes[n].node_type = "Element" ->
            <<"<">> \o QToString(Unwrap(bnodes[n].name)) \o <<">">>
                \o BNodesToXml(bnodes[n].children)
                \o <<"<", "/">> \o QToString(Unwrap(bnodes[n].name)) \o <<">">>
      [] bnodes[n].node_type = "Text" -> Unwrap(bnodes[n].value)
      [] OTHER -> <<>>
BNodesToXml(ns) ==
    IF ns = <<>> THEN <<>> ELSE BNodeToXml(Head(ns)) \o BNodesToXml(Tail(ns))

\* BDoc::to_xml: the fold over self.nodes
BDocToXml(d) == BNodesToXml(bdocs[d].nodes)

\* Document::root_element: child_iter().filter(Element).nth(0)
RootElement(d) ==
    IF \E i \in 1 .. Len(DocChildIter(d)) : bnodes[DocChildIter(d)[i]].node_type = "Element"
    THEN Some(DocChildIter(d)[CHOOSE i \in 1 .. Len(DocChildIter(d)) :
                  /\ bnodes[DocChildIter(d)[i]].node_type = "Element"
                  /\ \A j \in 1 .. i - 1 :
                        bnodes[DocChildIter(d)[j]].node_type # "Element"])
    ELSE None

SmallForests == {<<>>, <<AText>>, <<AElement>>}
ConvDocs ==
    {a \in {ADocBuild(p, c, e) :
               p \in SmallForests,
               c \in UNION {AForestsOfSize(k) : k \in 0 .. MaxTree - 1},
               e \in SmallForests} : ADocSize(a) <= MaxTree}

ConvInit ==
    /\ QIdle /\ AIdle /\ SIdle /\ TIdle /\ NIdle /\ PIdle
    /\ adoc \in ConvDocs
    /\ bnodes = <<>>
    /\ bdocs = <<>>
    /\ bres = BNoCall

\* d.to_xml() on an RBDoc
BToXml(d) ==
    /\ d \in BDocIds
    /\ bres' = BCall("to_xml", d, BDocToXml(d))
    /\ UNCHANGED <<adoc, bnodes, bdocs, brest>>

\* d.root_element()
BRootElement(d) ==
    /\ d \in BDocIds
    /\ bres' = BCall("root_element", d, RootElement(d))
    /\ UNCHANGED <<adoc, bnodes, bdocs, brest>>

ConvNext ==
    \/ BTryFrom
    \/ \E d \in BDocIds : BToXml(d)
    \/ \E d \in BDocIds : BRootElement(d)

SpecConvert == ConvInit /\ [][ConvNext]_vars

\* The B-documents are the A-document node for node: the top-level nodes are
\* those of prologue, content and epilogue in this order, and every node has
\* the type, name, value and children of the node it came from.
ConvertedAlike ==
    \A d \in BDocIds :
        BShapes(bdocs[d].nodes)
            = AExpandedShapes(adoc, adoc.prologue \o adoc.content \o adoc.epilogue)
\* root_element is the first element among the top-level nodes
RootElementFirst ==
    bres.op = "root_element" =>
        LET top == adoc.prologue \o adoc.content \o adoc.epilogue
            els == {i \in 1 .. Len(top) : top[i].node_type = "Element"}
        IN  IF els = {} THEN bres.ret = None
            ELSE bres.ret = Some(bdocs[bres.node].nodes[CHOOSE i \in els :
                                                            \A j \in els : i <= j])
\* to_xml of the B-document is to_xml of the A-document
SameXml == bres.op = "to_xml" => bres.ret = ADocToXml(adoc)

\* C28: the conversion of an A-document of elements and texts keeps the
\* tree: the top-level nodes are the prologue's, the content's, the
\* epilogue's, in order; every element has the name and the children, in
\* order, with their types, names and values, of the one it came from; so
\* to_xml of the B-document equals to_xml of the A-document, and
\* root_element is the first element among the top-level nodes.
C28_ConversionPreservesTree ==
    ConvertedAlike /\ RootElementFirst /\ SameXml

(***************************************************************************)
(* attribute_value read one iteration of its many0 at a time                *)
(* (src/src/parser/xml/attribute.rs).  While the repetition is under way    *)
(* the call record holds the quote, the input left and the pieces so far.   *)
(***************************************************************************)
LoopPieces ==
    { <<"a">>, <<"&">>, <<"'">>, <<"\"">>, <<"&", "#", "1", "0", ";">> }
LoopInputs == UNION {[1 .. n -> LoopPieces] : n \in 0 .. MaxPieces + 2}
LoopText(v) == Concat(v)

\* A mutant of many0: it goes on after every piece that was parsed.
Many0ContinuesOnAnyMatch(s, r) == r.ok

\* many0 goes on after the piece r parsed from s when it took some input
Many0Continues(s, r) == r.ok /\ Len(r.rest) < Len(s)

\* What many0 gives when it stops at s with the pieces acc on the result r
Many0Stops(s, acc, r) == IF r.ok \/ r.err = "NoMatch" THEN ParseOk(s, acc) ELSE r

OtherQuote(q) == IF q = "'" THEN "\"" ELSE "'"

LoopInit ==
    /\ QIdle /\ AIdle /\ BIdle /\ SIdle /\ TIdle /\ NIdle
    /\ namespace = <<>>
    /\ pinput \in LoopInputs
    /\ pentry = <<>>
    /\ pres = SNoCall

\* attribute_value is called: the opening quote of one of the two
\* alternatives is matched, or none is and the call returns
PValueOpen ==
    /\ pres.op = "none"
    /\ \E s \in {LoopText(pinput)} :
          pres' = IF tag(<<"'">>, s).ok
                  THEN SCall("many0", <<"'", Tail(s), <<>>>>, NoResult)
                  ELSE IF tag(<<"\"">>, s).ok
                  THEN SCall("many0", <<"\"", Tail(s), <<>>>>, NoResult)
                  ELSE SCall("attribute_value", <<>>, attribute_value(s))
    /\ UNCHANGED <<namespace, pinput, pentry, prest>>

\* one iteration of many0: the alt3 is applied to the input left; the
\* repetition goes on with what is left after the piece, or it stops and
\* the closing quote, the other alternative and the normalisation follow
PValuePiece ==
    /\ pres.op = "many0"
    /\ Len(pres.args[3]) <= Len(LoopText(pinput))
    /\ \E r \in {AttValuePiece(pres.args[2], pres.args[1])} :
          pres' = IF Many0Continues(pres.args[2], r)
                  THEN SCall("many0",
                             <<pres.args[1], r.rest, Append(pres.args[3], r.out)>>,
                             NoResult)
                  ELSE SCall("attribute_value", <<>>,
                             AttValueFinish(
                                 alt2(AttValueClose(pres.args[1],
                                                    Many0Stops(pres.args[2], pres.args[3], r)),
                                      tag(<<OtherQuote(pres.args[1])>>, LoopText(pinput)))))
    /\ UNCHANGED <<namespace, pinput, pentry, prest>>

LoopNext == PValueOpen \/ PValuePiece

SpecAttValueLoop == LoopInit /\ [][LoopNext]_vars
SpecAttValueLoopFair == SpecAttValueLoop /\ WF_vars(LoopNext)

\* An iteration takes at least one character of the input or is the last
ConsumesOrEnds ==
    (pres.op = "many0" /\ pres'.op = "many0") =>
        Len(pres'.args[2]) < Len(pres.args[2])
\* The call has returned, a value or an error
ValueReturned == pres.op = "attribute_value"
\* What it returned is what the repetition read in one go gives
ReturnedAsWhole == ValueReturned => pres.ret = attribute_value(LoopText(pinput))

AsNode(i) == IF i.kind = "Document" THEN [i EXCEPT !.kind = "Node"] ELSE i

\* C30: compare takes a document as it takes a node and fails whatever the
\* order of the operands: a.compare(b, op) is an error exactly when
\* b.compare(a, op) is one, and it returns what it returns when every
\* document operand is replaced by a node with the same string value.
C30_CompareDocumentAsNode ==
    sres.op = "compare" =>
        /\ (sres.ret.tag = "Err")
              = (ItemCompare(sseq[sres.args[2]], sseq[sres.args[1]], sres.args[3]).tag = "Err")
        /\ sres.ret = ItemCompare(AsNode(sseq[sres.args[1]]), AsNode(sseq[sres.args[2]]),
                                  sres.args[3])

=============================================================================
